---- MODULE Spec2Model ----
(***************************************************************************)
(* State-machine model of the page objects and popup handlers of the       *)
(* Ezra end-to-end suite: handleTimezonePopup, acceptCookies,              *)
(* ReserveAppointmentPage, ScheduleScanPage and RegistrationPage.          *)
(*                                                                         *)
(* The browser is the environment.  What the DOM holds is drawn when an    *)
(* operation starts; what a driver call returns (isVisible, isEnabled,     *)
(* textContent, click, waitForTimeout ...) is drawn when the call is made, *)
(* failure and time-out included, because the UI is dynamic.               *)
(***************************************************************************)
EXTENDS Integers, Sequences, FiniteSets, TLC

(***************************************************************************)
(* Bounds of the model.                                                    *)
(***************************************************************************)
MaxButtons == 2
MaxPages == 3
MaxSlots == 2
MaxBoxes == 2
MaxDates == 21
MaxWait == 3
\* buttons of a popup in the calls whose clicks are counted (TzCountSpec)
MaxCounted == 1

(***************************************************************************)
(* Strings.  A string is handled by the code through includes(),           *)
(* toLowerCase(), trim() and replace(); Chars gives the characters of      *)
(* every string the model uses so that these are computed, not assumed.    *)
(***************************************************************************)
Chars(s) ==
  CASE s = "" -> <<>>
    [] s = "Confirm" -> <<"C", "o", "n", "f", "i", "r", "m">>
    [] s = "Close" -> <<"C", "l", "o", "s", "e">>
    [] s = " Sign Out " -> <<" ", "S", "i", "g", "n", " ", "O", "u", "t", " ">>
    [] s = "Log out" -> <<"L", "o", "g", " ", "o", "u", "t">>
    [] s = "Logout" -> <<"L", "o", "g", "o", "u", "t">>
    [] s = "sign out" -> <<"s", "i", "g", "n", " ", "o", "u", "t">>
    [] s = "logout" -> <<"l", "o", "g", "o", "u", "t">>
    [] s = "log out" -> <<"l", "o", "g", " ", "o", "u", "t">>
    [] s = "confirm" -> <<"c", "o", "n", "f", "i", "r", "m">>
    [] s = "Confirm your time zone" -> <<"C", "o", "n", "f", "i", "r", "m", " ", "y", "o", "u", "r", " ", "t", "i", "m", "e", " ", "z", "o", "n", "e">>
    [] s = "Select Timezone" -> <<"S", "e", "l", "e", "c", "t", " ", "T", "i", "m", "e", "z", "o", "n", "e">>
    [] s = "Cookie settings" -> <<"C", "o", "o", "k", "i", "e", " ", "s", "e", "t", "t", "i", "n", "g", "s">>
    [] s = "time zone" -> <<"t", "i", "m", "e", " ", "z", "o", "n", "e">>
    [] s = "timezone" -> <<"t", "i", "m", "e", "z", "o", "n", "e">>
    [] s = "/dashboard" -> <<"/", "d", "a", "s", "h", "b", "o", "a", "r", "d">>
    [] s = "/sign-in" -> <<"/", "s", "i", "g", "n", "-", "i", "n">>
    [] s = "/login" -> <<"/", "l", "o", "g", "i", "n">>
    [] s = "/signin" -> <<"/", "s", "i", "g", "n", "i", "n">>
    [] s = "9:00 AM" -> <<"9", ":", "0", "0", " ", "A", "M">>
    [] s = "9:30 AM" -> <<"9", ":", "3", "0", " ", "A", "M">>
    [] s = "10:00 AM" -> <<"1", "0", ":", "0", "0", " ", "A", "M">>
    [] s = "10:30 AM" -> <<"1", "0", ":", "3", "0", " ", "A", "M">>
    [] s = ":00" -> <<":", "0", "0">>
    [] s = ":30" -> <<":", "3", "0">>
    [] s = "/reserve-appointment" -> <<"/", "r", "e", "s", "e", "r", "v", "e", "-", "a", "p", "p", "o", "i", "n", "t", "m", "e", "n", "t">>
    [] s = "Accept" -> <<"A", "c", "c", "e", "p", "t">>
    [] s = "4242 4242 4242 4242" -> <<"4", "2", "4", "2", " ", "4", "2", "4", "2", " ", "4", "2", "4", "2", " ", "4", "2", "4", "2">>
    [] s = "3782 822463 10005" -> <<"3", "7", "8", "2", " ", "8", "2", "2", "4", "6", "3", " ", "1", "0", "0", "0", "5">>
    [] s = "4242 4242 4242 42" -> <<"4", "2", "4", "2", " ", "4", "2", "4", "2", " ", "4", "2", "4", "2", " ", "4", "2">>
    [] s = "12 / 34" -> <<"1", "2", " ", "/", " ", "3", "4">>
    [] s = "12 / 3" -> <<"1", "2", " ", "/", " ", "3">>
    [] s = "333" -> <<"3", "3", "3">>
    [] s = "33" -> <<"3", "3">>
    [] s = "12345" -> <<"1", "2", "3", "4", "5">>
    [] s = "1234" -> <<"1", "2", "3", "4">>
    [] s = "a@b.c" -> <<"a", "@", "b", ".", "c">>
    [] s = "1234561234" -> <<"1", "2", "3", "4", "5", "6", "1", "2", "3", "4">>
    [] s = " " -> <<" ">>
    [] s = "/" -> <<"/">>
    [] s = "about:blank" -> <<"a", "b", "o", "u", "t", ":", "b", "l", "a", "n", "k">>
    [] s = "/schedule" -> <<"/", "s", "c", "h", "e", "d", "u", "l", "e">>
    [] s = "/select-scan" -> <<"/", "s", "e", "l", "e", "c", "t", "-", "s", "c", "a", "n">>
    [] s = "/select-plan" -> <<"/", "s", "e", "l", "e", "c", "t", "-", "p", "l", "a", "n">>
    [] s = "reserve" -> <<"r", "e", "s", "e", "r", "v", "e">>
    [] s = "payment" -> <<"p", "a", "y", "m", "e", "n", "t">>
    [] s = "appointment" -> <<"a", "p", "p", "o", "i", "n", "t", "m", "e", "n", "t">>
    [] s = "/reserve" -> <<"/", "r", "e", "s", "e", "r", "v", "e">>
    [] s = "reserve-appointment" -> <<"r", "e", "s", "e", "r", "v", "e", "-", "a", "p", "p", "o", "i", "n", "t", "m", "e", "n", "t">>
    [] s = "/Payment" -> <<"/", "P", "a", "y", "m", "e", "n", "t">>
    [] s = "/register" -> <<"/", "r", "e", "g", "i", "s", "t", "e", "r">>
    [] s = "/join" -> <<"/", "j", "o", "i", "n">>
    [] s = "/home" -> <<"/", "h", "o", "m", "e">>

Lower(c) ==
  CASE c = "A" -> "a" [] c = "B" -> "b" [] c = "C" -> "c" [] c = "D" -> "d"
    [] c = "E" -> "e" [] c = "F" -> "f" [] c = "G" -> "g" [] c = "H" -> "h"
    [] c = "I" -> "i" [] c = "J" -> "j" [] c = "K" -> "k" [] c = "L" -> "l"
    [] c = "M" -> "m" [] c = "N" -> "n" [] c = "O" -> "o" [] c = "P" -> "p"
    [] c = "Q" -> "q" [] c = "R" -> "r" [] c = "S" -> "s" [] c = "T" -> "t"
    [] c = "U" -> "u" [] c = "V" -> "v" [] c = "W" -> "w" [] c = "X" -> "x"
    [] c = "Y" -> "y" [] c = "Z" -> "z" [] OTHER -> c

\* String.prototype.toLowerCase
ToLowerCase(t) == [k \in 1..Len(t) |-> Lower(t[k])]

\* String.prototype.trim
RECURSIVE TrimLeft(_)
TrimLeft(t) == IF t # <<>> /\ Head(t) = " " THEN TrimLeft(Tail(t)) ELSE t

RECURSIVE TrimRight(_)
TrimRight(t) ==
  IF t # <<>> /\ t[Len(t)] = " " THEN TrimRight(SubSeq(t, 1, Len(t) - 1)) ELSE t

Trim(t) == TrimRight(TrimLeft(t))

\* String.prototype.includes
Includes(t, sub) ==
  \E k \in 0..(Len(t) - Len(sub)) : SubSeq(t, k + 1, k + Len(sub)) = sub

\* Playwright's :has-text() / hasText: case-insensitive substring match
IncludesCI(t, sub) == Includes(ToLowerCase(t), ToLowerCase(sub))

HasText(label, needle) == IncludesCI(Chars(label), Chars(needle))

\* String.prototype.replace(a, b) with a string pattern: the first occurrence
ReplaceFirst(t, a, b) ==
  IF Includes(t, a)
  THEN LET k == CHOOSE j \in 0..(Len(t) - Len(a)) :
                  /\ SubSeq(t, j + 1, j + Len(a)) = a
                  /\ \A h \in 0..(j - 1) : SubSeq(t, h + 1, h + Len(a)) # a
       IN SubSeq(t, 1, k) \o b \o SubSeq(t, k + Len(a) + 1, Len(t))
  ELSE t

\* String.prototype.replace(/\s/g, '') and replace(/\s|\//g, '')
Strip(t, drop) == SelectSeq(t, LAMBDA c : c \notin drop)

(***************************************************************************)
(* State.                                                                  *)
(***************************************************************************)
VARIABLES
  pc,        \* position of the running operation, "idle" between operations
  pages,     \* browser context: page id -> "none" | "open" | "closed"
  url,       \* page id -> current URL
  pageOf,    \* page object -> the page its `page` field refers to
  action,    \* handleTimezonePopup: the action argument
  obs,       \* handleTimezonePopup: what the three visibility probes returned
  popup,     \* handleTimezonePopup: the `popup` locator ("none" = null)
  buttons,   \* the buttons of the popup, in DOM order
  yellow,    \* whether the popup styles its Confirm buttons basic small yellow
  idx,       \* loop index of the running strategy (1-based)
  cnt,       \* count() taken at the start of the running loop
  click,     \* the click command issued by the step just taken (NoClick: none)
  clicks,    \* history: the clicks the running handleTimezonePopup call has issued
  budget,    \* history: selectors.length plus the counts its loops have taken
  outcome,   \* how the last operation ended: "none" | "resolved" | "rejected"
  err,       \* the error that escaped the inner handlers of the operation
  made,      \* the pages opened by page-object code (context.newPage())
  form,      \* fillPaymentDetails: what became of each Stripe field
  tries,     \* how often the operation attempted its most repeated action
  slots,     \* scheduleAppointment: the time slots on the page, in DOM order
  wanted,    \* scheduleAppointment: the appointmentTime argument
  boxes      \* selectAllCheckboxes: the checkboxes found, and the clicks each got

tzVars == <<action, obs, popup, buttons, yellow, idx, cnt>>
poVars == <<form, tries, slots, wanted, boxes>>
countVars == <<clicks, budget>>
vars == <<pc, pages, url, pageOf, outcome, err, made, click, tzVars, poVars, countVars>>

PageIds == 1..MaxPages
\* the `page` fixture every test and page object starts with
TestPage == 1
PageObjects == {"registration", "schedule", "reserve"}
Urls == {"/dashboard", "/sign-in"}

Labels == {"Confirm", "Close", " Sign Out ", "Log out"}
ModalTexts == {"Confirm your time zone", "Select Timezone", "Cookie settings"}
ButtonRec == [label : Labels, bar : BOOLEAN]
ButtonLists == UNION {[1..n -> ButtonRec] : n \in 0..MaxButtons}

\* how far fillPaymentDetails got: the state of each step, and what count()
\* said of the optional inputs
NoForm == [card |-> "none", expiry |-> "none", cvv |-> "none", zip |-> "none",
           email |-> "none", phone |-> "none", country |-> "none",
           emailCount |-> 0, phoneCount |-> 0]
\* the probes of lines 41-58 and, once made, the one of line 76 (shown)
NoObs == [tz |-> FALSE, title |-> FALSE, anc |-> FALSE, any |-> FALSE,
          read |-> FALSE, text |-> "", shown |-> FALSE, after |-> "none"]
NoClick == [strat |-> "none", sel |-> 0, btn |-> 0, label |-> "", read |-> FALSE,
            how |-> "none", vis |-> FALSE, en |-> "unchecked"]

\* a click command: which strategy issued it (strat, sel), on which button
\* (btn, label; 0 and "" for empty space), whether the label had been read,
\* how it was sent, and what the probes before it had said (vis, en)
Click(strat, sel, btn, read, how, vis, en) ==
  [strat |-> strat, sel |-> sel, btn |-> btn,
   label |-> IF btn = 0 THEN "" ELSE buttons[btn].label,
   read |-> read, how |-> how, vis |-> vis, en |-> en]

(***************************************************************************)
(* handleTimezonePopup: helpers.                                           *)
(***************************************************************************)
\* buttonText?.toLowerCase().trim() || '' ; a failed textContent() gives ''
NormalizedText(label, read) ==
  IF read THEN Trim(ToLowerCase(Chars(label))) ELSE <<>>

\* the Sign out guard of every strategy
IsSignOut(norm) ==
  \/ Includes(norm, Chars("sign out"))
  \/ Includes(norm, Chars("logout"))
  \/ Includes(norm, Chars("log out"))

\* the guard applied to the second-to-last button
IsSignOutSecondLast(norm) ==
  \/ Includes(norm, Chars("sign out"))
  \/ Includes(norm, Chars("logout"))

IsConfirmText(norm) == Includes(norm, Chars("confirm"))

NumSelectors == 7

\* the first / last index of bs satisfying P, 0 when there is none
FirstIdx(bs, P(_)) ==
  IF \E k \in 1..Len(bs) : P(bs[k])
  THEN CHOOSE k \in 1..Len(bs) : P(bs[k]) /\ \A j \in 1..(k - 1) : ~P(bs[j])
  ELSE 0

LastIdx(bs, P(_)) ==
  IF \E k \in 1..Len(bs) : P(bs[k])
  THEN CHOOSE k \in 1..Len(bs) : P(bs[k]) /\ \A j \in (k + 1)..Len(bs) : ~P(bs[j])
  ELSE 0

\* the button the i-th entry of `selectors` resolves to (0: no element)
Candidate(i, bs, tzc, yel) ==
  LET S1(b) == b.bar /\ yel /\ HasText(b.label, "Confirm")
      S2(b) == tzc /\ yel /\ HasText(b.label, "Confirm")
      S3(b) == b.bar /\ HasText(b.label, "Confirm")
      S4(b) == tzc /\ HasText(b.label, "Confirm")
      S5(b) == HasText(b.label, "Confirm")
      S6(b) == b.bar
      S7(b) == TRUE
  IN CASE i = 1 -> FirstIdx(bs, S1)
       [] i = 2 -> FirstIdx(bs, S2)
       [] i = 3 -> FirstIdx(bs, S3)
       [] i = 4 -> FirstIdx(bs, S4)
       [] i = 5 -> FirstIdx(bs, S5)
       [] i = 6 -> LastIdx(bs, S6)
       [] OTHER -> LastIdx(bs, S7)

\* popup.locator('button:has-text("Confirm")'): indexes of the matches
ConfirmButtons(bs) == SelectSeq([k \in 1..Len(bs) |-> k],
                                LAMBDA k : HasText(bs[k].label, "Confirm"))

\* a title branch that gives up when the ancestor is not visible
TitlePopupAncestorOnly(anc) == IF anc THEN "ancestor" ELSE "none"

\* lines 49-55: the modal around the title, or anyModal when that is not
\* visible
TitlePopup(anc) == IF anc THEN "ancestor" ELSE "generic"

\* a detection that takes any visible modal for the timezone popup
DetectPopupAnyModal(o) ==
  IF o.tz THEN "class"
  ELSE IF o.title THEN TitlePopup(o.anc)
  ELSE IF o.any THEN "generic"
  ELSE "none"

\* lines 45-68: which locator becomes `popup`
DetectPopup(o) ==
  IF o.tz THEN "class"
  ELSE IF o.title THEN TitlePopup(o.anc)
  ELSE IF o.any
       THEN LET modalText == ToLowerCase(Chars(IF o.read THEN o.text ELSE ""))
            IN IF Includes(modalText, Chars("time zone")) \/ Includes(modalText, Chars("timezone"))
               THEN "generic" ELSE "none"
  ELSE "none"

\* a catch that logs and throws again
OuterCatchRethrows(e) == "rejected"

\* lines 539-542: the catch around the whole body logs the error and falls
\* through, so the promise resolves
OuterCatch(e) == "resolved"

IsLoginUrl(u) ==
  \/ Includes(Chars(u), Chars("/login"))
  \/ Includes(Chars(u), Chars("/sign-in"))
  \/ Includes(Chars(u), Chars("/signin"))

\* what a click can do to the page: nothing, a redirect, or closing it
ClickEffects == {"none", "login", "closed"}
PagesAfter(eff) == IF eff = "closed" THEN [pages EXCEPT ![TestPage] = "closed"] ELSE pages
UrlAfter(eff) == IF eff = "login" THEN [url EXCEPT ![TestPage] = "/sign-in"] ELSE url

\* one step of the handler: the position reached, the click it issued, the
\* error (if any) that escaped the strategy, and what became of the page
TzSetObs(p, i, c, lc, e, pg, u, o) ==
  /\ pc' = p /\ idx' = i /\ cnt' = c /\ click' = lc
  /\ err' = e
  /\ outcome' = IF p # "tz_done" THEN outcome
                ELSE IF e = "none" THEN "resolved" ELSE OuterCatch(e)
  /\ pages' = pg /\ url' = u
  /\ obs' = o
  /\ UNCHANGED <<pageOf, made, action, popup, buttons, yellow, poVars>>

TzSet(p, i, c, lc, e, pg, u) == TzSetObs(p, i, c, lc, e, pg, u, NoObs)

\* a loop that clicks the same selector or button again for as long as the
\* popup stays
TzSeenRetry(p, i, c, lc, pg, u, after) ==
  TzSetObs(p, IF after = "visible" THEN idx ELSE i, c, lc, "none", pg, u,
           [NoObs EXCEPT !.after = after])

\* a step that clicked and then looked: `after` is what it saw of the page
\* and the popup ("closed", "login", "gone", "visible"), or "threw" when the
\* wait before the look threw
TzSeen(p, i, c, lc, pg, u, after) ==
  TzSetObs(p, i, c, lc, "none", pg, u, [NoObs EXCEPT !.after = after])

\* the function returns (e = "none") or a throw reaches the outer catch
\* the loop variables go out of scope when the handler returns
TzFinish(e, lc, pg, u) == TzSet("tz_done", 0, 0, lc, e, pg, u)
TzReturn == TzFinish("none", NoClick, pages, url)
TzThrow == TzFinish("driver", NoClick, pages, url)
TzGoto(p, i) == TzSet(p, i, cnt, NoClick, "none", pages, url)

(***************************************************************************)
(* handleTimezonePopup(page, action)                                       *)
(***************************************************************************)
\* the call itself: a test or a page object invokes the handler
TzStart ==
  /\ pc = "idle"
  /\ \E a \in {"confirm", "close", "skip"} : action' = a
  /\ pc' = "tz_detect"
  /\ click' = NoClick /\ outcome' = "none" /\ err' = "none"
  /\ UNCHANGED <<pages, url, pageOf, made, obs, popup, buttons, yellow, idx, cnt, poVars>>

\* lines 19-68: closed check, the initial wait and the three probes
TzDetect ==
  /\ pc = "tz_detect"
  /\ IF pages[TestPage] = "closed"
     THEN TzReturn
     ELSE \/ \* the page closes during waitForTimeout(1000): it throws
             /\ TzFinish("driver", NoClick, PagesAfter("closed"), url)
          \/ \E tz \in BOOLEAN, title \in BOOLEAN, any \in BOOLEAN :
             \E anc \in (IF ~tz /\ title THEN BOOLEAN ELSE {FALSE}) :
             \E read \in (IF ~tz /\ ~title /\ any THEN BOOLEAN ELSE {FALSE}) :
             \E text \in (IF read THEN ModalTexts ELSE {""}) :
               LET o == [tz |-> tz, title |-> title, anc |-> anc, any |-> any,
                         read |-> read, text |-> text, shown |-> FALSE]
               IN /\ obs' = o
                  /\ popup' = DetectPopup(o)
                  /\ pc' = "tz_detected"
                  /\ UNCHANGED <<pages, url, pageOf, made, action, buttons, yellow,
                                 idx, cnt, click, outcome, err, poVars>>

\* a dispatch in which every action but 'close' confirms
AfterDetectDefaultConfirm(pop, popupVisible, a) ==
  IF pop = "none" \/ ~popupVisible THEN "return"
  ELSE IF a = "close" THEN "close"
  ELSE "confirm"

\* lines 70-86: what follows detection, by popup and action
AfterDetect(pop, popupVisible, a) ==
  IF pop = "none" \/ ~popupVisible THEN "return"
  ELSE IF a = "confirm" THEN "confirm"
  ELSE IF a = "close" THEN "close"
  ELSE "return"

\* lines 70-91 and 528-538: the guards after detection, and the 'close' action
TzDispatch ==
  /\ pc = "tz_detected"
  /\ \E popupVisible \in (IF popup = "none" THEN {FALSE} ELSE BOOLEAN) :
       LET branch == AfterDetect(popup, popupVisible, action) IN
       IF branch = "return" THEN
         \* lines 70-80, or action 'skip': nothing is done
         TzSetObs("tz_done", idx, cnt, NoClick, "none", pages, url,
                  [obs EXCEPT !.shown = popupVisible])
       ELSE
         \E bs \in ButtonLists :
         \E yel \in (IF ConfirmButtons(bs) = <<>> THEN {FALSE} ELSE BOOLEAN) :
           /\ buttons' = bs /\ yellow' = yel
           /\ obs' = NoObs
           /\ UNCHANGED <<pageOf, made, action, popup, cnt, poVars>>
           /\ IF branch = "confirm" THEN
                \* line 89: the selector loop is entered only on an open page
                \E closes \in BOOLEAN :
                  /\ pc' = IF closes THEN "tz_s1" ELSE "tz_s0"
                  /\ idx' = IF closes THEN 0 ELSE 1
                  /\ pages' = IF closes THEN PagesAfter("closed") ELSE pages
                  /\ UNCHANGED <<url, click, outcome, err>>
              ELSE
                LET c == FirstIdx(bs, LAMBDA b : HasText(b.label, "Close")) IN
                \/ \* closeInPopup not visible: nothing to do
                   /\ pc' = "tz_done" /\ outcome' = "resolved"
                   /\ UNCHANGED <<idx, click, pages, url, err>>
                \/ /\ c # 0
                   /\ \E ok \in BOOLEAN, eff \in ClickEffects :
                        /\ click' = [strat |-> "close", sel |-> 1, btn |-> c,
                                         label |-> bs[c].label, read |-> FALSE,
                                         how |-> "click", vis |-> TRUE,
                                         en |-> "unchecked"]
                        /\ pc' = "tz_done"
                        \* a failed click, or a wait on a closed page, throws
                        /\ err' = IF ok /\ eff # "closed" THEN "none" ELSE "driver"
                        /\ outcome' = IF err' = "none" THEN "resolved" ELSE OuterCatch(err')
                        /\ pages' = IF ok THEN PagesAfter(eff) ELSE pages
                        /\ url' = IF ok THEN UrlAfter(eff) ELSE url
                        /\ idx' = idx

\* lines 133-139: a candidate counts as the Confirm button by its text, or by
\* being one of the last two (fallback) selectors
S0IsConfirmButton(norm, i) ==
  IsConfirmText(norm) \/ (i - 1 >= NumSelectors - 2)

\* a selector loop without the label check
S0SkipsNothing(norm, i) == FALSE

S0SkipsLabel(norm, i) ==
  ~S0IsConfirmButton(norm, i) /\ (i - 1 < NumSelectors - 2)

\* lines 187-191: the click sent the browser to a login URL
RedirectedToLogin(before, after) ==
  /\ IsLoginUrl(after)
  /\ ~Includes(Chars(before), Chars("/login"))
  /\ ~Includes(Chars(before), Chars("/sign-in"))

\* lines 103-222: one iteration of the selector loop (Strategy 0)
TzS0 ==
  /\ pc = "tz_s0"
  /\ IF idx > NumSelectors THEN TzGoto("tz_s1", 0)
     ELSE IF pages[TestPage] = "closed" THEN TzReturn
     ELSE
       LET b == Candidate(idx, buttons, popup = "class", yellow)
           next == TzGoto("tz_s0", idx + 1)
       IN
       \/ next   \* isVisible gave false
       \/ /\ b # 0
          /\ \E read \in BOOLEAN :
               LET norm == NormalizedText(buttons[b].label, read) IN
               IF IsSignOut(norm) THEN next
               ELSE IF S0SkipsLabel(norm, idx) THEN next
               ELSE
                 \* line 141: isEnabled().catch(() => true), a failed probe says yes
                 \E en \in {"yes", "no"} :
                   IF en = "no" THEN next
                   ELSE
                     \/ next  \* a wait or the scroll threw, or the re-check failed
                     \/ \E how \in {"click", "js"}, ok \in BOOLEAN :
                          /\ (how = "click" => ok)
                          /\ LET lc == Click("s0", idx, b, read, how, TRUE, en)
                             IN
                             IF ~ok
                             THEN TzSet("tz_s0", idx + 1, cnt, lc, "none", pages, url)
                             ELSE
                               \E eff \in ClickEffects :
                                 LET pg == PagesAfter(eff)
                                     u == UrlAfter(eff)
                                 IN
                                 IF eff = "closed" THEN
                                   \* waitForTimeout(2000) throws, or line 211
                                   \/ TzSeen("tz_s0", idx + 1, cnt, lc, pg, u, "threw")
                                   \/ TzSeen("tz_done", 0, 0, lc, pg, u, "closed")
                                 ELSE IF RedirectedToLogin(url[TestPage], u[TestPage]) THEN
                                   TzSeen("tz_done", 0, 0, lc, pg, u, "login")
                                 ELSE
                                   \/ TzSeen("tz_done", 0, 0, lc, pg, u, "gone")
                                   \/ TzSeen("tz_s0", idx + 1, cnt, lc, pg, u, "visible")

\* lines 234-323: Strategy 1, the Confirm buttons of the popup
TzS1 ==
  /\ pc = "tz_s1"
  /\ IF idx = 0 THEN
       \* line 235: count().catch(() => 0); it fails on a closed page
       \E ok \in (IF pages[TestPage] = "closed" THEN {FALSE} ELSE BOOLEAN) :
         TzSet("tz_s1", 1, IF ok THEN Len(ConfirmButtons(buttons)) ELSE 0,
               NoClick, "none", pages, url)
     ELSE IF idx > cnt THEN TzGoto("tz_s1b", 0)
     ELSE IF pages[TestPage] = "closed" THEN TzReturn
     ELSE
       LET b == ConfirmButtons(buttons)[idx]
           next == TzGoto("tz_s1", idx + 1)
       IN
       \/ next   \* not visible
       \/ \E read \in BOOLEAN :
            LET norm == NormalizedText(buttons[b].label, read) IN
            IF IsSignOut(norm) THEN next
            ELSE IF ~IsConfirmText(norm) THEN next
            ELSE
              \/ next   \* bounding boxes say outside the popup, or the scroll threw
              \/ \E ok \in BOOLEAN :
                   LET lc == Click("s1", idx, b, read, "click", TRUE, "unchecked")
                   IN
                   IF ~ok
                   THEN TzSet("tz_s1", idx + 1, cnt, lc, "none", pages, url)
                   ELSE
                     \E eff \in ClickEffects :
                       LET pg == PagesAfter(eff)
                           u == UrlAfter(eff)
                       IN
                       \* lines 300-316
                       IF eff = "closed" THEN TzSeen("tz_done", 0, 0, lc, pg, u, "closed")
                       ELSE
                         \/ TzSeen("tz_done", 0, 0, lc, pg, u, "gone")
                         \/ TzSeen("tz_s1", idx + 1, cnt, lc, pg, u, "visible")

\* lines 327-398: Strategy 1b, the last button of the popup
TzS1b ==
  /\ pc = "tz_s1b"
  /\ LET skip == TzGoto("tz_s2", 0) IN
     IF pages[TestPage] = "closed" THEN skip
     ELSE
       \E countOk \in BOOLEAN :
         LET buttonCount == IF countOk THEN Len(buttons) ELSE 0 IN
         IF buttonCount = 0 THEN skip
         ELSE
           \/ skip   \* last button not visible
           \/ \E read \in BOOLEAN :
                LET norm == NormalizedText(buttons[buttonCount].label, read) IN
                IF IsSignOut(norm) THEN
                  IF buttonCount > 1 THEN
                    \/ skip   \* second-to-last not visible: throw, caught
                    \/ \E read2 \in BOOLEAN :
                         LET norm2 == NormalizedText(buttons[buttonCount - 1].label, read2) IN
                         IF ~IsSignOutSecondLast(norm2) THEN
                           \/ skip   \* the scroll threw
                           \/ \E ok \in BOOLEAN :
                                LET lc == Click("s1b2", buttonCount - 1, buttonCount - 1, read2,
                                                "click", TRUE, "unchecked")
                                IN
                                IF ~ok
                                THEN TzSet("tz_s2", 0, cnt, lc, "none", pages, url)
                                ELSE \E eff \in ClickEffects :
                                       TzFinish("none", lc, PagesAfter(eff), UrlAfter(eff))
                         ELSE skip   \* throw, caught
                  ELSE skip
                ELSE
                  \/ skip   \* the scroll threw
                  \/ \E ok \in BOOLEAN :
                       LET lc == Click("s1b", buttonCount, buttonCount, read,
                                       "click", TRUE, "unchecked")
                       IN
                       IF ~ok
                       THEN TzSet("tz_s2", 0, cnt, lc, "none", pages, url)
                       ELSE
                         \E eff \in ClickEffects :
                           LET pg == PagesAfter(eff)
                               u == UrlAfter(eff)
                           IN
                           IF eff = "closed" THEN TzFinish("none", lc, pg, u)
                           ELSE
                             \/ TzFinish("none", lc, pg, u)   \* popup gone
                             \/ TzSet("tz_s2", 0, cnt, lc, "none", pg, u)

\* lines 401-449: Strategy 2, the Confirm buttons of the popup again
TzS2 ==
  /\ pc = "tz_s2"
  /\ IF idx = 0 THEN
       \E ok \in (IF pages[TestPage] = "closed" THEN {FALSE} ELSE BOOLEAN) :
         TzSet("tz_s2", 1, IF ok THEN Len(ConfirmButtons(buttons)) ELSE 0,
               NoClick, "none", pages, url)
     ELSE IF idx > cnt THEN TzGoto("tz_s3", 0)
     ELSE IF pages[TestPage] = "closed" THEN TzReturn
     ELSE
       LET b == ConfirmButtons(buttons)[idx]
           next == TzGoto("tz_s2", idx + 1)
       IN
       \/ next   \* not visible
       \/ \E read \in BOOLEAN :
            LET norm == NormalizedText(buttons[b].label, read) IN
            IF IsSignOut(norm) THEN next
            ELSE IF ~IsConfirmText(norm) THEN next
            ELSE
              \/ next   \* the scroll threw
              \/ \E ok \in BOOLEAN :
                   LET lc == Click("s2", idx, b, read, "click", TRUE, "unchecked")
                   IN
                   IF ~ok
                   THEN TzSet("tz_s2", idx + 1, cnt, lc, "none", pages, url)
                   ELSE
                     \E eff \in ClickEffects :
                       LET pg == PagesAfter(eff)
                           u == UrlAfter(eff)
                       IN
                       \* closed: line 435 skips the check, or the wait throws
                       IF eff = "closed" THEN
                         \/ TzSeen("tz_s2", idx + 1, cnt, lc, pg, u, "closed")
                         \/ TzSeen("tz_s2", idx + 1, cnt, lc, pg, u, "threw")
                       ELSE
                         \/ TzSeen("tz_done", 0, 0, lc, pg, u, "gone")
                         \/ TzSeen("tz_s2", idx + 1, cnt, lc, pg, u, "visible")

\* lines 452-472: Strategy 3, the first Confirm button of the popup
TzS3 ==
  /\ pc = "tz_s3"
  /\ LET b == FirstIdx(buttons, LAMBDA x : HasText(x.label, "Confirm"))
         skip == TzGoto("tz_s4", 0)
     IN
     \/ skip   \* not visible
     \/ /\ b # 0
        /\ pages[TestPage] = "open"
        /\ \E read \in BOOLEAN :
             LET norm == NormalizedText(buttons[b].label, read) IN
             IF IsSignOut(norm) THEN skip
             ELSE
               \/ TzThrow   \* the scroll threw: nothing catches it but the outer catch
               \/ \E ok \in BOOLEAN :
                    LET lc == Click("s3", 1, b, read, "click", TRUE, "unchecked")
                    IN
                    IF ~ok THEN TzFinish("driver", lc, pages, url)
                    ELSE
                      \E eff \in ClickEffects :
                        \/ TzFinish("none", lc, PagesAfter(eff), UrlAfter(eff))
                        \/ /\ eff = "closed"   \* closes during the wait: it throws
                           /\ TzFinish("driver", lc, PagesAfter(eff), UrlAfter(eff))

\* lines 475-514: Strategy 4, the last button of the popup
TzS4 ==
  /\ pc = "tz_s4"
  /\ IF pages[TestPage] = "closed" THEN TzThrow ELSE
     \/ TzThrow   \* count() has no catch of its own
     \/ LET buttonCount == Len(buttons)
            skip == TzGoto("tz_s4c", 0)
        IN
        IF buttonCount = 0 THEN skip
        ELSE
          \/ skip   \* last button not visible
          \/ \E read \in BOOLEAN :
               LET norm == NormalizedText(buttons[buttonCount].label, read) IN
               IF IsSignOut(norm) THEN
                 IF buttonCount > 1 THEN
                   \/ TzReturn   \* second-to-last not visible
                   \/ \E read2 \in BOOLEAN :
                        LET norm2 == NormalizedText(buttons[buttonCount - 1].label, read2) IN
                        IF ~IsSignOutSecondLast(norm2) THEN
                          \/ TzThrow   \* the scroll threw
                          \/ \E ok \in BOOLEAN :
                               LET lc == Click("s4b", buttonCount - 1, buttonCount - 1, read2,
                                               "click", TRUE, "unchecked")
                               IN
                               IF ~ok THEN TzFinish("driver", lc, pages, url)
                               ELSE
                                 \E eff \in ClickEffects :
                                   TzFinish(IF eff = "closed" THEN "driver" ELSE "none",
                                            lc, PagesAfter(eff), UrlAfter(eff))
                        ELSE TzReturn
                 ELSE TzReturn
               ELSE
                 \/ TzThrow   \* the scroll threw
                 \/ \E ok \in BOOLEAN :
                      LET lc == Click("s4", buttonCount, buttonCount, read,
                                      "click", TRUE, "unchecked")
                      IN
                      IF ~ok THEN TzFinish("driver", lc, pages, url)
                      ELSE
                        \E eff \in ClickEffects :
                          TzFinish(IF eff = "closed" THEN "driver" ELSE "none",
                                   lc, PagesAfter(eff), UrlAfter(eff))

\* lines 518-527: the last resort, a mouse click at 85% / 85% of the popup box;
\* what lies under that point is any button of the popup, or none
TzS4c ==
  /\ pc = "tz_s4c"
  /\ \/ TzReturn   \* boundingBox() gave null
     \/ /\ pages[TestPage] = "open"
        /\ \E hit \in 0..Len(buttons), ok \in BOOLEAN :
          LET lc == Click("coord", 0, hit, FALSE, "mouse", FALSE, "unchecked")
          IN
          IF ~ok THEN TzFinish("driver", lc, pages, url)
          ELSE
            \E eff \in ClickEffects :
              TzFinish(IF eff = "closed" THEN "driver" ELSE "none",
                       lc, PagesAfter(eff), UrlAfter(eff))

\* the caller gets the settled promise back
TzDone ==
  /\ pc = "tz_done"
  /\ pc' = "idle"
  /\ action' = "none" /\ popup' = "none" /\ buttons' = <<>> /\ yellow' = FALSE
  /\ idx' = 0 /\ cnt' = 0 /\ click' = NoClick
  /\ UNCHANGED <<pages, url, pageOf, made, obs, outcome, err, poVars>>


(***************************************************************************)
(* acceptCookies(page)                                                     *)
(***************************************************************************)
NumAcceptSelectors == 6

\* what the probes of one run return: the banner, the quick Accept check, the
\* first visible entry of acceptButtonSelectors (0: none), the Accept button
\* inside the banner, and whether the click went through
CookieProbes == [popup : BOOLEAN, accept : BOOLEAN, sel : 0..NumAcceptSelectors,
                 inPopup : BOOLEAN, ok : BOOLEAN]

CookieClick(k) == [strat |-> "cookie", sel |-> k, btn |-> 0, label |-> "Accept",
                   read |-> FALSE, how |-> "click", vis |-> TRUE, en |-> "unchecked"]

\* lines 185-232: the click the run issues and the error thrown inside the try
AcceptCookiesRun(closedPage, pr) ==
  LET isPopupVisible == pr.popup /\ ~closedPage
      hasAcceptButton == pr.accept /\ ~closedPage
      firstVisible == IF closedPage THEN 0 ELSE pr.sel
      failed == IF pr.ok THEN "none" ELSE "driver"
  IN IF ~isPopupVisible /\ ~hasAcceptButton THEN [click |-> NoClick, err |-> "none"]
     ELSE IF firstVisible > 0 THEN [click |-> CookieClick(firstVisible), err |-> failed]
     ELSE IF isPopupVisible /\ pr.inPopup
          THEN [click |-> CookieClick(NumAcceptSelectors + 1), err |-> failed]
     ELSE [click |-> NoClick, err |-> "none"]

\* a catch that throws again
CookieCatchRethrows(e) == "rejected"

\* lines 233-236: the catch swallows whatever the try threw
CookieCatch(e) == "resolved"

AcceptCookies ==
  /\ pc = "idle"
  /\ \E p \in PageIds, pr \in CookieProbes :
       /\ pages[p] # "none"
       /\ LET r == AcceptCookiesRun(pages[p] = "closed", pr) IN
          /\ obs' = pr
          /\ click' = r.click
          /\ err' = r.err
          /\ outcome' = IF r.err = "none" THEN "resolved" ELSE CookieCatch(r.err)
  /\ pc' = "ck_done"
  /\ UNCHANGED <<pages, url, pageOf, made, action, popup, buttons, yellow, countVars, idx, cnt, poVars>>

(***************************************************************************)
(* ReserveAppointmentPage                                                  *)
(***************************************************************************)
\* line 57: waitUntilReady looks for another page when its own is closed
NeedsFreshPage(pg, p) == pg[p] = "closed"

\* a rebinding that always opens a new page
FreshPageAlwaysNew(pg) ==
  IF \E q \in PageIds : pg[q] = "none"
  THEN CHOOSE q \in PageIds : pg[q] = "none" /\ \A r \in 1..(q - 1) : pg[r] # "none"
  ELSE 0

\* line 59: context.pages().find((p) => !p.isClosed()) ?? context.newPage();
\* a new page takes the next unused id, 0 when the model has none left
FreshPage(pg) ==
  IF \E q \in PageIds : pg[q] = "open"
  THEN CHOOSE q \in PageIds : pg[q] = "open" /\ \A r \in 1..(q - 1) : pg[r] # "open"
  ELSE IF \E q \in PageIds : pg[q] = "none"
  THEN CHOOSE q \in PageIds : pg[q] = "none" /\ \A r \in 1..(q - 1) : pg[r] # "none"
  ELSE 0

\* lines 64-73: load state, cookies (errors dropped), Stripe iframe (errors dropped)
ReadyRest(p) ==
  \/ /\ err' = "driver" /\ outcome' = "rejected"    \* waitForLoadState throws
     /\ click' = NoClick
  \/ /\ \E pr \in CookieProbes : click' = AcceptCookiesRun(FALSE, pr).click
     /\ err' = "none" /\ outcome' = "resolved"

\* lines 56-74
WaitUntilReady ==
  /\ pc = "idle"
  /\ pc' = "rdy_done"
  /\ LET p == pageOf["reserve"] IN
     IF NeedsFreshPage(pages, p) THEN
       LET fresh == FreshPage(pages) IN
       /\ fresh # 0
       /\ pageOf' = [pageOf EXCEPT !["reserve"] = fresh]
       /\ made' = IF pages[fresh] = "none" THEN made \cup {fresh} ELSE made
       /\ pages' = [pages EXCEPT ![fresh] = "open"]
       /\ \/ /\ url' = [url EXCEPT ![fresh] = "/reserve-appointment"]
             /\ ReadyRest(fresh)
          \/ /\ url' = url                             \* page.goto throws
             /\ err' = "driver" /\ outcome' = "rejected" /\ click' = NoClick
     ELSE
       /\ UNCHANGED <<pageOf, made, pages, url>>
       /\ ReadyRest(p)
  /\ UNCHANGED <<obs, action, popup, buttons, yellow, countVars, idx, cnt, poVars>>

MinCardDigits == 15
MinExpiryDigits == 4
MinCvvLength == 3
MinZipLength == 5

CardValues == {"", "4242 4242 4242 42", "3782 822463 10005", "4242 4242 4242 4242"}
ExpiryValues == {"", "12 / 3", "12 / 34"}
CvvValues == {"", "33", "333"}
ZipValues == {"", "1234", "12345"}
TextValues == {"", "a@b.c"}

\* lines 194-198 and 212-215: the card number counts without its spaces
CardFilled(v) == Chars(v) # <<>> /\ Len(Strip(Chars(v), {" "})) >= MinCardDigits
\* lines 239-240
ExpiryFilled(v) == Chars(v) # <<>> /\ Len(Strip(Chars(v), {" ", "/"})) >= MinExpiryDigits
\* lines 258-259
CvvFilled(v) == Chars(v) # <<>> /\ Len(Chars(v)) >= MinCvvLength
\* lines 274-275
ZipFilled(v) == Chars(v) # <<>> /\ Len(Chars(v)) >= MinZipLength

\* a card step that retries twice
CardAttemptsTwoRetries(v1, v2) == IF CardFilled(v1) THEN 1 ELSE 3

\* lines 198-218: how often the card number is entered, given what the field
\* held after the first and after the second entry
CardAttempts(v1, v2) == IF CardFilled(v1) THEN 1 ELSE 2

\* an optional step that waits for its field whether or not the frame has one
OptionalStepRequired(count, driverOk, v) ==
  IF count > 0 /\ driverOk
  THEN IF Chars(v) = <<>> THEN "empty" ELSE "ok"
  ELSE "failed"

\* lines 286-302 and 308-324: an optional field is filled only when the frame
\* has one; state of the step given count(), waitFor/fill and the value read back
OptionalStep(count, driverOk, v) ==
  IF count > 0
  THEN IF ~driverOk THEN "failed"
       ELSE IF Chars(v) = <<>> THEN "empty" ELSE "ok"
  ELSE "absent"

PayEnd(f, t, e) ==
  /\ pc' = "pay_done"
  /\ form' = f /\ tries' = t /\ err' = e
  /\ outcome' = IF e = "none" THEN "resolved" ELSE "rejected"
  /\ click' = NoClick
  /\ UNCHANGED <<pages, url, pageOf, made, obs, action, popup, buttons, yellow, countVars,
                 idx, cnt, slots, wanted, boxes>>

\* lines 326-367: the country step swallows its errors; the final wait of
\* line 365 fails only when the page has gone
PayCountry(f, t) ==
  \E st \in {"selected", "unset", "notfound"}, waited \in BOOLEAN :
    PayEnd([f EXCEPT !.country = st], t, IF waited THEN "none" ELSE "driver")

\* lines 304-324
PayPhone(f, t) ==
  \E count \in 0..1, driverOk \in BOOLEAN, v \in TextValues :
    LET st == OptionalStep(count, driverOk, v)
        g == [f EXCEPT !.phone = st, !.phoneCount = count]
    IN IF st = "failed" THEN PayEnd(g, t, "driver")
       ELSE IF st = "empty" THEN PayEnd(g, t, "Phone number not filled correctly")
       ELSE PayCountry(g, t)

\* lines 280-302
PayEmail(f, t) ==
  \E count \in 0..1, driverOk \in BOOLEAN, v \in TextValues :
    LET st == OptionalStep(count, driverOk, v)
        g == [f EXCEPT !.email = st, !.emailCount = count]
    IN IF st = "failed" THEN PayEnd(g, t, "driver")
       ELSE IF st = "empty" THEN PayEnd(g, t, "Email not filled correctly")
       ELSE PayPhone(g, t)

\* lines 264-278
PayZip(f, t) ==
  \/ PayEnd([f EXCEPT !.zip = "failed"], t, "driver")
  \/ \E v \in ZipValues :
       IF ZipFilled(v) THEN PayEmail([f EXCEPT !.zip = "ok"], t)
       ELSE PayEnd([f EXCEPT !.zip = "invalid"], t, "ZIP code not filled correctly")

\* lines 245-262
PayCvv(f, t) ==
  \/ PayEnd([f EXCEPT !.cvv = "failed"], t, "driver")
  \/ \E v \in CvvValues :
       IF CvvFilled(v) THEN PayZip([f EXCEPT !.cvv = "ok"], t)
       ELSE PayEnd([f EXCEPT !.cvv = "invalid"], t, "CVV not filled correctly")

\* lines 226-243
PayExpiry(f, t) ==
  \/ PayEnd([f EXCEPT !.expiry = "failed"], t, "driver")
  \/ \E v \in ExpiryValues :
       IF ExpiryFilled(v) THEN PayCvv([f EXCEPT !.expiry = "ok"], t)
       ELSE PayEnd([f EXCEPT !.expiry = "invalid"], t, "Expiry not filled correctly")

\* lines 175-224
PayCard(f) ==
  \/ PayEnd([f EXCEPT !.card = "failed"], 1, "driver")
  \/ \E v1 \in CardValues, v2 \in CardValues :
       LET t == CardAttempts(v1, v2)
           entered == IF t = 1 THEN v1 ELSE v2
       IN IF CardFilled(entered) THEN PayExpiry([f EXCEPT !.card = "ok"], t)
          ELSE PayEnd([f EXCEPT !.card = "invalid"], t,
                      "Card number not filled correctly after retry")

\* lines 157-368, with getStripeFrame (lines 120-152)
FillPaymentDetails ==
  /\ pc = "idle"
  /\ IF pages[pageOf["reserve"]] # "open"
     THEN PayEnd(NoForm, 0, "Payment page is no longer available (page closed).")
     ELSE \/ PayEnd(NoForm, 0, "Could not find Stripe iframe.")
          \/ PayCard(NoForm)

(***************************************************************************)
(* ScheduleScanPage.scheduleAppointment, step 5: the time slot             *)
(***************************************************************************)
Times == {"9:00 AM", "9:30 AM", "10:00 AM", "10:30 AM"}
SlotRec == [time : Times, vis : BOOLEAN, en : BOOLEAN]
SlotLists == UNION {[1..n -> SlotRec] : n \in 0..MaxSlots}
WantedTimes == {"9:00 AM", "10:00 AM", "10:30 AM"}

\* line 230: appointmentTime.replace(':00', ':30')
TargetTime(w) == ReplaceFirst(Chars(w), Chars(":00"), Chars(":30"))

\* allTimeSlots.filter({ hasText: targetTime })
MatchesTarget(s, w) == IncludesCI(Chars(s.time), TargetTime(w))

\* lines 243-249: the preferred slot when its first match is visible, else the
\* first slot of the list
SlotToClick(sl, w) ==
  LET pref == FirstIdx(sl, LAMBDA s : MatchesTarget(s, w))
      hasPreferred == pref # 0 /\ sl[pref].vis
  IN IF hasPreferred THEN pref ELSE 1

SlotEnd(sl, w, lc, e) ==
  /\ pc' = "slot_done"
  /\ slots' = sl /\ wanted' = w /\ click' = lc /\ err' = e
  /\ outcome' = IF e = "none" THEN "none" ELSE "rejected"
  /\ UNCHANGED <<pages, url, pageOf, made, obs, action, popup, buttons, yellow, countVars,
                 idx, cnt, form, tries, boxes>>

\* lines 226-257: the slot step, whatever brought the call there
SlotStep ==
  \E sl \in SlotLists, w \in WantedTimes :
       IF pages[pageOf["schedule"]] # "open" THEN
         /\ sl = <<>>
         /\ SlotEnd(sl, w, NoClick, "driver")          \* count() throws
       ELSE IF Len(sl) = 0 THEN SlotEnd(sl, w, NoClick, "No time slots found")
       ELSE
         LET k == SlotToClick(sl, w)
             lc == [strat |-> "slot", sel |-> 0, btn |-> k, label |-> sl[k].time,
                    read |-> FALSE, how |-> "click", vis |-> sl[k].vis,
                    en |-> IF sl[k].en THEN "yes" ELSE "no"]
         IN \* the click waits for its target to be visible and times out otherwise
            SlotEnd(sl, w, lc, IF sl[k].vis THEN "none" ELSE "driver")

\* lines 226-257; steps 1-4 have brought up the slots of the chosen date
SelectTimeSlot ==
  /\ pc = "idle"
  /\ SlotStep

(***************************************************************************)
(* ScheduleScanPage.scheduleAppointment, the whole call: steps 1-4 (state, *)
(* center, calendar, date), step 5 (time slot) and steps 6-7 (Continue).   *)
(***************************************************************************)
NumKnownDates == 7
ScanSkip == 5
ScanDivisor == 3
ScanSpan == 15

Min2(a, b) == IF a <= b THEN a ELSE b

\* line 195: Math.min(5, Math.floor(dateButtonCount / 3))
StartIndex(n) == Min2(ScanSkip, n \div ScanDivisor)

\* line 199: Math.min(dateButtonCount, startIndex + 15)
ScanLimit(n) == Min2(n, StartIndex(n) + ScanSpan)

\* the pages a navigation can end on
FlowUrls == {"/dashboard", "/sign-in", "/schedule", "/select-scan",
             "/reserve-appointment", "/Payment"}

\* line 273: waitForURL(/reserve|payment|appointment/i)
UrlIsPayment(u) ==
  \/ IncludesCI(Chars(u), Chars("reserve"))
  \/ IncludesCI(Chars(u), Chars("payment"))
  \/ IncludesCI(Chars(u), Chars("appointment"))

\* a click on a date button: `sel` is the position in knownGoodDates
\* (1-based) or the nth() index of the scan (0-based); `vis` says whether
\* the button had been seen visible
DateClick(strat, i, seen) ==
  [strat |-> strat, sel |-> i, btn |-> 0, label |-> "", read |-> FALSE,
   how |-> "click", vis |-> seen, en |-> "unchecked"]

\* what the probe after a date click said
DateObs(appeared) == [appeared |-> appeared]

\* one step of scheduleAppointment: position, loop variables, the click
\* issued, the probe made, and the error thrown out of the call
SchedSet(p, i, c, lc, o, e) ==
  /\ pc' = p /\ idx' = i /\ cnt' = c /\ click' = lc /\ obs' = o /\ err' = e
  /\ outcome' = IF p # "sched_done" THEN "none"
                ELSE IF e = "none" THEN "resolved" ELSE "rejected"
  /\ UNCHANGED <<pages, url, pageOf, made, action, popup, buttons, yellow, countVars, poVars>>

\* a date loop that leaves at the first date it managed to click
DateChosenOnClick(appeared) == TRUE

\* lines 164-168 and 212-216: dateClicked is set, and the loop left, only when
\* a time slot was seen after the click
DateChosen(appeared) == appeared

\* lines 157-173 and 205-221: click one date and look for time slots; a throw
\* of the click or of the wait is caught and the loop goes on
TryDate(strat, i, seen, p) ==
  \/ SchedSet(p, i + 1, cnt, DateClick(strat, i, seen), DateObs(FALSE), "none")
  \/ \E appeared \in BOOLEAN :
       IF DateChosen(appeared)
       THEN SchedSet("sched_dated", 0, 0, DateClick(strat, i, seen),
                     DateObs(appeared), "none")
       ELSE SchedSet(p, i + 1, cnt, DateClick(strat, i, seen),
                     DateObs(appeared), "none")

\* lines 116-140: state, center, calendar and the optional textarea; any of
\* the waits may time out
SchedStart ==
  /\ pc = "idle"
  /\ IF pages[pageOf["schedule"]] # "open"
     THEN SchedSet("sched_done", 0, 0, NoClick, NoObs, "driver")
     ELSE \/ SchedSet("sched_done", 0, 0, NoClick, NoObs, "driver")
          \/ SchedSet("sched_known", 1, 0, NoClick, NoObs, "none")

\* lines 150-173: the known good dates, in list order
SchedKnown ==
  /\ pc = "sched_known"
  /\ IF idx > NumKnownDates THEN SchedSet("sched_count", 0, 0, NoClick, NoObs, "none")
     ELSE \/ SchedSet("sched_known", idx + 1, cnt, NoClick, NoObs, "none")  \* not visible
          \/ TryDate("known", idx, TRUE, "sched_known")

\* lines 190-196: count() has no catch; the scan starts past the first dates
SchedCount ==
  /\ pc = "sched_count"
  /\ \/ SchedSet("sched_done", 0, 0, NoClick, NoObs, "driver")
     \/ \E n \in 0..MaxDates :
          SchedSet("sched_scan", StartIndex(n), n, NoClick, NoObs, "none")

\* line 223: the error of a call that found no date
NoDateMessage == "Could not select any available date with time slots"

\* lines 199-224: the scan of the calendar buttons, then the throw
SchedScan ==
  /\ pc = "sched_scan"
  /\ IF idx >= ScanLimit(cnt)
     THEN SchedSet("sched_done", 0, 0, NoClick, NoObs, NoDateMessage)
     ELSE \/ SchedSet("sched_scan", idx + 1, cnt, NoClick, NoObs, "none")  \* textContent threw
          \/ TryDate("scan", idx, FALSE, "sched_scan")

\* lines 226-231: past the date loops, the preferred time is worked out
SchedTarget ==
  /\ pc = "sched_dated"
  /\ SchedSet("sched_slot", 0, 0, NoClick, NoObs, "none")

\* lines 233-257 within the call
SchedSelectSlot ==
  /\ pc = "sched_slot"
  /\ SlotStep

\* a Continue step that awaits the click only
ContinueErrorClickOnly(clicked, matched) ==
  IF ~clicked THEN "driver" ELSE "none"

\* lines 272-275: Promise.all rejects when the click or waitForURL rejects
ContinueError(clicked, matched) ==
  IF ~clicked THEN "driver"
  ELSE IF ~matched THEN "waitForURL timeout"
  ELSE "none"

SchedEnd(lc, e, u) ==
  /\ pc' = "sched_done" /\ click' = lc /\ err' = e /\ url' = u
  /\ outcome' = IF e = "none" THEN "resolved" ELSE "rejected"
  /\ UNCHANGED <<pages, pageOf, made, obs, tzVars, countVars, poVars>>

\* lines 259-279: the Continue button, seen visible, then enabled, then
\* clicked while waitForURL watches the URL
SchedContinue ==
  /\ pc = "slot_done" /\ err = "none"
  /\ LET p == pageOf["schedule"] IN
     \E vis \in BOOLEAN, en \in BOOLEAN, clicked \in BOOLEAN, u \in FlowUrls :
       /\ pages[p] # "open" => ~vis
       /\ ~(vis /\ en /\ clicked) => u = url[p]
       /\ ~vis => en /\ clicked
       /\ ~en => clicked
       /\ IF ~vis THEN SchedEnd(NoClick, "expect toBeVisible", url)
          ELSE IF ~en THEN SchedEnd(NoClick, "expect toBeEnabled", url)
          ELSE LET lc == [strat |-> "continue", sel |-> 0, btn |-> 0,
                          label |-> "Continue", read |-> FALSE, how |-> "click",
                          vis |-> vis, en |-> IF en THEN "yes" ELSE "no"]
                   matched == UrlIsPayment(url[p]) \/ UrlIsPayment(u)
               IN SchedEnd(lc, ContinueError(clicked, matched),
                           [url EXCEPT ![p] = u])

(***************************************************************************)
(* RegistrationPage.selectAllCheckboxes                                    *)
(***************************************************************************)
BoxRec == [vis : BOOLEAN, checked : BOOLEAN]
BoxLists == UNION {[1..n -> BoxRec] : n \in 0..MaxBoxes}

\* lines 254-310: the clicks one checkbox gets; `took` is what isChecked()
\* says after the first click (standard checkboxes only)
BoxClicks(std, b, took) ==
  IF b.vis /\ ~b.checked
  THEN IF std /\ ~took THEN 2 ELSE 1
  ELSE 0

Max(S) == CHOOSE m \in S : \A x \in S : x <= m

\* lines 108-317; the strategies of lines 112-249 end with one locator, of
\* standard inputs (std) or of custom elements; `done` is what the caller sees
\* when the method returns
BoxStep(done) ==
  /\ \E std \in BOOLEAN, bl \in BoxLists :
       IF pages[pageOf["registration"]] # "open" THEN
         /\ bl = <<>> /\ std
         /\ boxes' = <<>> /\ tries' = 0
         /\ err' = "driver" /\ outcome' = "rejected"
       ELSE IF Len(bl) = 0 THEN
         /\ std
         /\ boxes' = <<>> /\ tries' = 0
         /\ err' = "No checkboxes found on registration page" /\ outcome' = "rejected"
       ELSE
         \E took \in [1..Len(bl) -> BOOLEAN], failAt \in 0..Len(bl) :
           LET n(k) == IF failAt # 0 /\ k > failAt THEN 0
                       ELSE IF k = failAt THEN 1
                       ELSE BoxClicks(std, bl[k], took[k])
           IN /\ failAt # 0 => BoxClicks(std, bl[failAt], took[failAt]) > 0
              /\ boxes' = [k \in 1..Len(bl) |->
                             [vis |-> bl[k].vis, checked |-> bl[k].checked,
                              std |-> std, clicks |-> n(k)]]
              /\ tries' = Max({n(k) : k \in 1..Len(bl)})
              /\ err' = IF failAt = 0 THEN "none" ELSE "driver"
              /\ outcome' = IF failAt = 0 THEN done ELSE "rejected"
  /\ click' = NoClick
  /\ UNCHANGED <<pages, url, pageOf, made, obs, action, popup, buttons, yellow, countVars,
                 idx, cnt, form, slots, wanted>>

\* lines 108-317, called by a test
SelectAllCheckboxes ==
  /\ pc = "idle"
  /\ pc' = "cb_done"
  /\ BoxStep("resolved")

(***************************************************************************)
(* RegistrationPage.register, submit and isRegistrationSuccessful          *)
(***************************************************************************)
\* where the registration pages of the application live
RegUrls == {"/sign-in", "/register", "/join", "/dashboard"}

\* line 340: while (attempts < 10)
MaxPolls == 10

\* line 353
SubmitMessage ==
  "Submit button is not enabled. Make sure all required checkboxes are selected."

\* a click of register: on the Join link, on a form field or on the submit
\* button; `enabled` is what the last isEnabled() before it said
RegClick(what, enabled) ==
  [strat |-> what, sel |-> 0, btn |-> 0, label |-> "", read |-> FALSE,
   how |-> "click", vis |-> TRUE, en |-> enabled]

\* what isEnabled().catch(() => false) gave
EnabledObs(enabled) == [enabled |-> enabled]

\* one step of register: position, polls made, the click issued, the probe
\* made, the error thrown out of the call and the URL of the page
RegSet(p, i, lc, o, e, u) ==
  /\ pc' = p /\ idx' = i /\ click' = lc /\ obs' = o /\ err' = e
  /\ url' = [url EXCEPT ![pageOf["registration"]] = u]
  /\ outcome' = IF p # "reg_done" THEN "none"
                ELSE IF e = "none" THEN "resolved" ELSE "rejected"
  /\ UNCHANGED <<pages, pageOf, made, action, popup, buttons, yellow, countVars, cnt, poVars>>

RegUrl == url[pageOf["registration"]]
RegOpen == pages[pageOf["registration"]] = "open"

\* a register that goes on after a step that threw
StepThrowsNever(e) == FALSE

\* lines 386-401: every step is awaited outside any try, so its throw is
\* the throw of register
StepThrows(e) == e # "none"

\* lines 47-61: /sign-in, cookies, the Join link, the form
RegGoto ==
  /\ pc = "idle"
  /\ boxes' = <<>> /\ tries' = 0
  /\ \E u \in RegUrls, e \in {"none", "driver"}, joined \in BOOLEAN :
       /\ ~RegOpen => (e = "driver" /\ ~joined /\ u = RegUrl)
       /\ (e = "none") => joined
       /\ pc' = IF StepThrows(e) THEN "reg_done" ELSE "reg_fill"
       /\ click' = IF joined THEN RegClick("join", "unchecked") ELSE NoClick
       /\ err' = e /\ url' = [url EXCEPT ![pageOf["registration"]] = u]
       /\ outcome' = IF StepThrows(e) THEN "rejected" ELSE "none"
  /\ UNCHANGED <<pages, pageOf, made, obs, action, popup, buttons, yellow, countVars,
                 idx, cnt, form, slots, wanted>>

\* lines 78-96: click and fill the five fields
RegFill ==
  /\ pc = "reg_fill"
  /\ \E e \in {"none", "driver"}, touched \in BOOLEAN :
       /\ (e = "none") => touched
       /\ RegSet(IF StepThrows(e) THEN "reg_done" ELSE "reg_boxes", 0,
                 IF touched THEN RegClick("field", "unchecked") ELSE NoClick,
                 NoObs, e, RegUrl)

\* line 393: selectAllCheckboxes within register
RegBoxes ==
  /\ pc = "reg_boxes"
  /\ BoxStep("none")
  /\ pc' = IF StepThrows(err') THEN "reg_done" ELSE "reg_wait"

\* line 397: the submit button is waited for
RegWait ==
  /\ pc = "reg_wait"
  /\ \E e \in {"none", "driver"} :
       /\ ~RegOpen => e = "driver"
       /\ RegSet(IF StepThrows(e) THEN "reg_done" ELSE "sub_start", 0, NoClick,
                 NoObs, e, RegUrl)

\* lines 324-331: the two waits and the first isEnabled()
SubStart ==
  /\ pc = "sub_start"
  /\ \/ RegSet("reg_done", 0, NoClick, NoObs, "driver", RegUrl)
     \/ /\ RegOpen
        /\ \E enabled \in BOOLEAN :
             RegSet(IF enabled THEN "sub_final" ELSE "sub_poll", 0, NoClick,
                    EnabledObs(enabled), "none", RegUrl)

\* lines 340-347: one turn of the polling loop
SubPoll ==
  /\ pc = "sub_poll"
  /\ \E enabled \in BOOLEAN :
       /\ ~RegOpen => ~enabled
       /\ RegSet(IF enabled \/ idx + 1 >= MaxPolls THEN "sub_final" ELSE "sub_poll",
                 idx + 1, NoClick, EnabledObs(enabled), "none", RegUrl)

\* a submit that clicks whatever the last check said
SubmitAllowedAlways(finalEnabled) == TRUE

\* lines 351-354: the check before the click
SubmitAllowed(finalEnabled) == finalEnabled

\* lines 351-354
SubFinal ==
  /\ pc = "sub_final"
  /\ \E finalEnabled \in BOOLEAN :
       /\ ~RegOpen => ~finalEnabled
       /\ IF SubmitAllowed(finalEnabled)
          THEN RegSet("sub_click", idx, NoClick, EnabledObs(finalEnabled), "none", RegUrl)
          ELSE RegSet("reg_done", idx, NoClick, EnabledObs(finalEnabled),
                      SubmitMessage, RegUrl)

\* lines 356-367: scroll, wait, click, and the waits after the click
SubClick ==
  /\ pc = "sub_click"
  /\ LET lc == RegClick("submit", IF obs.enabled THEN "yes" ELSE "no") IN
     \/ RegSet("reg_done", idx, NoClick, obs, "driver", RegUrl)   \* the scroll threw
     \/ /\ RegOpen
        /\ \E u \in RegUrls, e \in {"none", "driver"} :
             RegSet("reg_done", idx, lc, obs, e, u)

\* what isRegistrationSuccessful saw
RegObs(left, seen, shown, ret) ==
  [left |-> left, seen |-> seen, shown |-> shown, ret |-> ret]

\* lines 431-432: none of the three paths in the URL
LeftRegistration(u) ==
  /\ ~Includes(Chars(u), Chars("/sign-in"))
  /\ ~Includes(Chars(u), Chars("/register"))
  /\ ~Includes(Chars(u), Chars("/join"))

\* a check that looks at the URL only
RegSucceededUrlOnly(left, seen) == left

\* lines 431-449: away from the registration pages, or a success indicator
\* seen
RegSucceeded(left, seen) == left \/ seen

\* lines 409-470: every wait and probe has its catch; the URL may move while
\* waitForURL waits
IsRegistrationSuccessful ==
  /\ pc = "idle"
  /\ \E u \in RegUrls, seen \in BOOLEAN, shown \in BOOLEAN :
       /\ ~RegOpen => (u = RegUrl /\ ~seen /\ ~shown)
       /\ LeftRegistration(u) => (~seen /\ ~shown)   \* not looked at
       /\ seen => ~shown                            \* not looked at
       /\ pc' = "regok_done" /\ outcome' = "resolved" /\ err' = "none"
       /\ url' = [url EXCEPT ![pageOf["registration"]] = u]
       /\ obs' = RegObs(LeftRegistration(u), seen, shown,
                        RegSucceeded(LeftRegistration(u), seen))
  /\ click' = NoClick
  /\ UNCHANGED <<pages, pageOf, made, action, popup, buttons, yellow, countVars, idx, cnt, poVars>>

(***************************************************************************)
(* LoginPage.goto and login, and the goto of the booking page objects.     *)
(* `click` holds the clicks the page objects issue themselves; the clicks  *)
(* of acceptCookies and handleTimezonePopup inside them are those of the   *)
(* sections above, and show here as a page that may close or move.         *)
(***************************************************************************)
\* lines 31, 64, 138, 147
ClosedMessage == "Cannot navigate to login page - page is closed"

\* line 69: const loginUrls = ['/login', '/sign-in', '/signin', '/']
LoginUrls == <<"/login", "/sign-in", "/signin", "/">>

\* where a navigation to `target` can end: there, or on a redirect
Landing(target) == {target, "/sign-in", "/dashboard"}

\* lines 37 and 124
OnLoginUrl(u) ==
  \/ Includes(Chars(u), Chars("/login"))
  \/ Includes(Chars(u), Chars("/sign-in"))
  \/ Includes(Chars(u), Chars("/signin"))

\* line 118
LoggedInUrl(u) ==
  \/ Includes(Chars(u), Chars("/dashboard"))
  \/ Includes(Chars(u), Chars("/home"))
  \/ Includes(Chars(u), Chars("/select-scan"))

\* what goto has seen: the email input visible, a logged-in URL, what the
\* last isClosed() said, and the candidate URL it was at
GotoObs(emailSeen, loggedInSeen, sawClosed, tried) ==
  [emailSeen |-> emailSeen, loggedInSeen |-> loggedInSeen,
   sawClosed |-> sawClosed, tried |-> tried]

\* one step of LoginPage.goto; `open` says whether the page is still open
\* after it and `u` where it is
LgSet(p, i, o, e, open, u) ==
  /\ pc' = p /\ idx' = i /\ obs' = o /\ err' = e /\ click' = NoClick
  /\ pages' = IF open THEN pages ELSE [pages EXCEPT ![TestPage] = "closed"]
  /\ url' = [url EXCEPT ![TestPage] = u]
  /\ outcome' = IF p # "lg_done" THEN "none"
                ELSE IF e = "none" THEN "resolved" ELSE "rejected"
  /\ UNCHANGED <<pageOf, made, action, popup, buttons, yellow, countVars, cnt, poVars>>

\* lines 61-65 and 134-140: a throw inside the try is turned into the
\* message when the page is closed, and dropped otherwise
LgCaught(i, open, u, p, j) ==
  IF open THEN LgSet(p, j, GotoObs(FALSE, FALSE, FALSE, i), "none", TRUE, u)
  ELSE LgSet("lg_done", i, GotoObs(FALSE, FALSE, TRUE, i), ClosedMessage, FALSE, u)

\* lines 55-59, 108-114 and 128-132: the email input was seen; the waitFor
\* after it returns, or throws into the catch
LgFormSeen(i, u, p, j) ==
  \/ LgSet("lg_done", i, GotoObs(TRUE, FALSE, FALSE, i), "none", TRUE, u)
  \/ \E open \in BOOLEAN : LgCaught(i, open, u, p, j)

\* lines 28-67: closed on entry; already on a login URL
LgStart ==
  /\ pc = "idle"
  /\ LET u == url[TestPage] IN
     IF pages[TestPage] # "open"
     THEN LgSet("lg_done", 0, GotoObs(FALSE, FALSE, TRUE, 0), ClosedMessage, FALSE, u)
     ELSE IF ~OnLoginUrl(u)
     THEN LgSet("lg_try", 1, GotoObs(FALSE, FALSE, FALSE, 0), "none", TRUE, u)
     ELSE \/ \E open \in BOOLEAN : LgCaught(0, open, u, "lg_try", 1)  \* waitForLoadState threw
          \/ LgFormSeen(0, u, "lg_try", 1)
          \* no form seen, on a page the helpers may have closed or moved
          \/ \E open \in BOOLEAN, v \in {u, "/dashboard"} :
               LgSet("lg_try", 1, GotoObs(FALSE, FALSE, ~open, 0), "none", open, v)

\* the loop goes to the next candidate, or past the last one
LgNextPc(i) == IF i < Len(LoginUrls) THEN "lg_try" ELSE "lg_last"
LgNextIdx(i) == IF i < Len(LoginUrls) THEN i + 1 ELSE 0

\* lines 71-143: one candidate URL
LgTry ==
  /\ pc = "lg_try"
  /\ LET i == idx
         p == LgNextPc(idx)
         j == LgNextIdx(idx)
     IN
     IF pages[TestPage] # "open"
     THEN LgSet("lg_done", i, GotoObs(FALSE, FALSE, TRUE, i), ClosedMessage, FALSE,
                url[TestPage])
     ELSE
       \* page.goto threw
       \/ \E open \in BOOLEAN : LgCaught(i, open, url[TestPage], p, j)
       \/ \E u \in Landing(LoginUrls[i]) :
            \* lines 81-83 and 103-105: seen closed, on to the next candidate
            \/ LgSet(p, j, GotoObs(FALSE, FALSE, TRUE, i), "none", FALSE, u)
            \* waitForLoadState threw
            \/ \E open \in BOOLEAN : LgCaught(i, open, u, p, j)
            \* lines 108-114
            \/ LgFormSeen(i, u, p, j)
            \* lines 117-133: no form seen; the page may close under the probe
            \/ \E open \in BOOLEAN :
                 IF LoggedInUrl(u)
                 THEN LgSet("lg_done", i, GotoObs(FALSE, TRUE, FALSE, i), "none", open, u)
                 ELSE IF OnLoginUrl(u) /\ open
                 THEN \/ LgFormSeen(i, u, p, j)
                      \/ LgSet(p, j, GotoObs(FALSE, FALSE, FALSE, i), "none", TRUE, u)
                 ELSE LgSet(p, j, GotoObs(FALSE, FALSE, ~open /\ OnLoginUrl(u), i),
                            "none", open, u)

\* lines 145-163: the last attempt, outside any try
LgLast ==
  /\ pc = "lg_last"
  /\ LET i == Len(LoginUrls) IN
     IF pages[TestPage] # "open"
     THEN LgSet("lg_done", i, GotoObs(FALSE, FALSE, TRUE, i), ClosedMessage, FALSE,
                url[TestPage])
     ELSE
       \* page.goto or waitForLoadState threw
       \/ \E open \in BOOLEAN :
            LgSet("lg_done", i, GotoObs(FALSE, FALSE, FALSE, i), "driver", open,
                  url[TestPage])
       \/ \E u \in Landing("/login") :
            \* lines 155, 157, 159: seen closed, the rest is skipped
            \/ LgSet("lg_done", i, GotoObs(FALSE, FALSE, TRUE, i), "none", FALSE, u)
            \* line 160: the waitFor throws
            \/ \E open \in BOOLEAN :
                 LgSet("lg_done", i, GotoObs(FALSE, FALSE, FALSE, i), "driver", open, u)
            \/ LgSet("lg_done", i, GotoObs(TRUE, FALSE, FALSE, i), "none", TRUE, u)

\* the three waits of login settle at a tick of 1..MaxWait, the last tick
\* being their timeout
WaitTicks == 1..MaxWait

LoginObs(filled, urlAt, errAt, navAt, settledAt) ==
  [filled |-> filled, urlAt |-> urlAt, errAt |-> errAt, navAt |-> navAt,
   settledAt |-> settledAt]

LoginSet(p, o, lc, e, u) ==
  /\ pc' = p /\ obs' = o /\ click' = lc /\ err' = e
  /\ url' = [url EXCEPT ![TestPage] = u]
  /\ outcome' = IF p # "li_done" THEN "none"
                ELSE IF e = "none" THEN "resolved" ELSE "rejected"
  /\ UNCHANGED <<pages, pageOf, made, action, popup, buttons, yellow, countVars, idx, cnt, poVars>>

\* lines 167-168: the two fills, email first
LoginFill ==
  /\ pc = "idle"
  /\ \/ /\ pages[TestPage] = "open"
        /\ LoginSet("li_click", LoginObs(<<"email", "password">>, 0, 0, 0, 0),
                    NoClick, "none", url[TestPage])
     \/ \E filled \in {<<>>, <<"email">>} :
          LoginSet("li_done", LoginObs(filled, 0, 0, 0, 0), NoClick, "driver",
                   url[TestPage])

\* a race that waits for all three
RaceSettledLast(a, b, c) == Max({a, b, c})

\* lines 172-176: Promise.race settles with the first of its promises
RaceSettled(a, b, c) == Min2(a, Min2(b, c))

\* lines 169-176: the click, then the race of the three waits, each with a
\* catch that turns its timeout into a settled promise
LoginSubmit ==
  /\ pc = "li_click"
  /\ LET lc == [strat |-> "login", sel |-> 0, btn |-> 0, label |-> "", read |-> FALSE,
                how |-> "click", vis |-> FALSE, en |-> "unchecked"]
     IN
     \/ LoginSet("li_done", obs, lc, "driver", url[TestPage])   \* the click threw
     \/ /\ pages[TestPage] = "open"
        /\ \E a \in WaitTicks, b \in WaitTicks, c \in WaitTicks,
              u \in {url[TestPage], "/dashboard"} :
             /\ (u # url[TestPage]) => a < MaxWait   \* the URL moved and was seen
             /\ LoginSet("li_done",
                         LoginObs(obs.filled, a, b, c, RaceSettled(a, b, c)),
                         lc, "none", u)

\* what a goto did: whose it was, how many times it called page.goto, and
\* whether it returned
NavObs(who, navs, ok) == [who |-> who, navs |-> navs, ok |-> ok]

NavEnd(who, navs, lc, e) ==
  /\ pc' = "goto_done" /\ obs' = NavObs(who, navs, e = "none")
  /\ click' = lc /\ err' = e
  /\ outcome' = IF e = "none" THEN "resolved" ELSE "rejected"
  /\ UNCHANGED <<action, popup, buttons, yellow, countVars, idx, cnt, poVars>>

\* ScheduleScanPage.ts line 31
OnSchedule(u) == Includes(Chars(u), Chars("/schedule"))

\* SelectScanPage.ts line 33
OnSelectScan(u) ==
  \/ Includes(Chars(u), Chars("/select-scan"))
  \/ Includes(Chars(u), Chars("/select-plan"))

\* part_002 lines 85-88
OnPaymentPage(u) ==
  \/ Includes(Chars(u), Chars("/reserve"))
  \/ Includes(Chars(u), Chars("reserve-appointment"))
  \/ Includes(Chars(u), Chars("payment"))
  \/ Includes(Chars(u), Chars("appointment"))

\* a goto that navigates whatever the URL
NeedsGotoAlways(onPage) == TRUE

\* ScheduleScanPage.ts line 31, SelectScanPage.ts line 33, part_002 line 90:
\* page.goto is reached only when the URL does not name the page
NeedsGoto(onPage) == ~onPage

\* ScheduleScanPage.ts lines 30-37
ScheduleGoto ==
  /\ pc = "idle"
  /\ LET p == pageOf["schedule"] IN
     IF ~NeedsGoto(OnSchedule(url[p]))
     THEN /\ NavEnd("schedule", 0, NoClick, "none")
          /\ UNCHANGED <<pages, url, pageOf, made>>
     ELSE /\ \E u \in Landing("/schedule"), e \in {"none", "driver"} :
               /\ pages[p] # "open" => (e = "driver" /\ u = url[p])
               /\ url' = [url EXCEPT ![p] = u]
               /\ NavEnd("schedule", 1, NoClick, e)
          /\ UNCHANGED <<pages, pageOf, made>>

\* SelectScanPage.ts lines 31-58; DashboardPage.isOnDashboard and
\* clickBookScan are what their names say
SelectScanGoto ==
  /\ pc = "idle"
  /\ LET p == TestPage
         book == [strat |-> "book", sel |-> 0, btn |-> 0, label |-> "Book a scan",
                  read |-> FALSE, how |-> "click", vis |-> FALSE, en |-> "unchecked"]
     IN
     /\ IF ~NeedsGoto(OnSelectScan(url[p]))
        THEN /\ \E e \in {"none", "driver"} :
                  /\ pages[p] # "open" => e = "driver"
                  /\ NavEnd("select", 0, NoClick, e)
             /\ url' = url
        ELSE \/ /\ pages[p] = "open"                        \* on the dashboard
                /\ \E u \in {url[p], "/select-scan"}, e \in {"none", "driver"} :
                     /\ (u # "/select-scan") => e = "driver"
                     /\ url' = [url EXCEPT ![p] = u]
                     /\ NavEnd("select", 0, book, e)
             \/ \E u \in Landing("/select-scan"), e \in {"none", "driver"} :
                  /\ pages[p] # "open" => (e = "driver" /\ u = url[p])
                  /\ (u # "/select-scan") => e = "driver"   \* no heading there
                  /\ url' = [url EXCEPT ![p] = u]
                  /\ NavEnd("select", 1, NoClick, e)
     /\ UNCHANGED <<pages, pageOf, made>>

\* part_002 lines 79-97, with the waitUntilReady of lines 56-74 inside
ReserveGoto ==
  /\ pc = "idle"
  /\ LET p == pageOf["reserve"]
         fresh == FreshPage(pages)
         q == IF NeedsFreshPage(pages, p) THEN fresh ELSE p
         n1 == IF NeedsFreshPage(pages, p) THEN 1 ELSE 0
     IN
     /\ q # 0
     /\ pages[p] # "none"
     /\ pageOf' = [pageOf EXCEPT !["reserve"] = q]
     /\ made' = IF pages[q] = "none" THEN made \cup {q} ELSE made
     /\ pages' = [pages EXCEPT ![q] = "open"]
     /\ \E u1 \in Landing("/reserve-appointment") :
          LET at == IF n1 = 1 THEN u1 ELSE url[p] IN
          /\ n1 = 0 => u1 = "/reserve-appointment"
          /\ \/ /\ n1 = 1                      \* the first waitUntilReady threw
                /\ url' = [url EXCEPT ![q] = at]
                /\ NavEnd("reserve", 1, NoClick, "driver")
             \/ IF ~NeedsGoto(OnPaymentPage(at))
                THEN /\ url' = [url EXCEPT ![q] = at]
                     /\ \E e \in {"none", "driver"} : NavEnd("reserve", n1, NoClick, e)
                ELSE \E u2 \in Landing("/reserve-appointment"), e \in {"none", "driver"} :
                       /\ url' = [url EXCEPT ![q] = u2]
                       /\ NavEnd("reserve", n1 + 1, NoClick, e)

(***************************************************************************)
(* The test and the browser around the operations.                         *)
(***************************************************************************)
\* a test navigates its page (page.goto) between calls of the handler
TestNavigates ==
  /\ pc = "idle"
  /\ pages[TestPage] = "open"
  /\ \E u \in Urls : url' = [url EXCEPT ![TestPage] = u]
  /\ UNCHANGED <<pc, pages, pageOf, outcome, err, made, click, tzVars, countVars, poVars>>

\* a page of the context is closed under the test
PageCloses ==
  /\ pc = "idle"
  /\ \E p \in PageIds :
       /\ pages[p] = "open"
       /\ pages' = [pages EXCEPT ![p] = "closed"]
  /\ UNCHANGED <<pc, url, pageOf, outcome, err, made, click, tzVars, countVars, poVars>>

\* the application opens another page in the context (a new tab or window)
AppOpensPage ==
  /\ pc = "idle"
  /\ \E p \in PageIds :
       /\ pages[p] = "none"
       /\ \A q \in 1..(p - 1) : pages[q] # "none"
       /\ pages' = [pages EXCEPT ![p] = "open"]
  /\ UNCHANGED <<pc, url, pageOf, outcome, err, made, click, tzVars, countVars, poVars>>

\* the caller gets the settled promise back
OpDone ==
  /\ pc \in {"ck_done", "rdy_done", "pay_done", "slot_done", "cb_done"}
  /\ pc' = "idle"
  /\ obs' = NoObs /\ click' = NoClick /\ outcome' = "none" /\ err' = "none"
  /\ form' = NoForm /\ tries' = 0 /\ slots' = <<>> /\ wanted' = "" /\ boxes' = <<>>
  /\ UNCHANGED <<pages, url, pageOf, made, action, popup, buttons, yellow, countVars, idx, cnt>>

Init ==
  /\ pc = "idle"
  /\ pages = [p \in PageIds |-> IF p = TestPage THEN "open" ELSE "none"]
  /\ url = [p \in PageIds |-> IF p = TestPage THEN "/dashboard" ELSE "about:blank"]
  /\ pageOf = [o \in PageObjects |-> TestPage]
  /\ action = "none" /\ obs = NoObs /\ popup = "none"
  /\ buttons = <<>> /\ yellow = FALSE
  /\ idx = 0 /\ cnt = 0 /\ click = NoClick
  /\ clicks = 0 /\ budget = 0
  /\ outcome = "none" /\ err = "none" /\ made = {}
  /\ form = NoForm /\ tries = 0 /\ slots = <<>> /\ wanted = "" /\ boxes = <<>>

\* the page objects and the cookie handler, on a context whose pages come and go
Next ==
  \/ AcceptCookies \/ WaitUntilReady \/ FillPaymentDetails
  \/ SelectTimeSlot \/ SelectAllCheckboxes
  \/ PageCloses \/ AppOpensPage \/ OpDone

Spec == Init /\ [][Next]_vars

\* the timezone handler, called by a test on its page
\* the handler keeps no count of its clicks: its steps do not touch the
\* history variables
Quiet(A) == A /\ UNCHANGED countVars

TzNext ==
  \/ Quiet(TzStart) \/ Quiet(TzDetect) \/ Quiet(TzDispatch)
  \/ Quiet(TzS0) \/ Quiet(TzS1) \/ Quiet(TzS1b)
  \/ Quiet(TzS2) \/ Quiet(TzS3) \/ Quiet(TzS4) \/ Quiet(TzS4c)
  \/ Quiet(TzDone)
  \/ TestNavigates

TzSpec == Init /\ [][TzNext]_vars

(***************************************************************************)
(* handleTimezonePopup with its clicks counted.                           *)
(***************************************************************************)
\* the clicks behind a click record: one, its JavaScript retry (lines 172-178,
\* sent when the driver's click has thrown) being part of it
ClicksOf(lc) == IF lc = NoClick THEN 0 ELSE 1

\* lines 235 and 402: the step that takes the count of a fallback loop
CountsLoop == pc \in {"tz_s1", "tz_s2"} /\ idx = 0 /\ pc' = pc

\* the call has returned, or the caller has its promise back
CallOver == pc' \in {"tz_done", "idle"}

\* what a step of the call adds to the history: its click, and the count it
\* took; a call starts with selectors.length (lines 93-101) and no click
Count ==
  /\ clicks' = IF CallOver \/ pc = "idle" THEN 0 ELSE clicks + ClicksOf(click')
  /\ budget' = IF CallOver THEN 0
                ELSE IF pc = "idle" THEN NumSelectors
                ELSE IF CountsLoop THEN budget + cnt'
                ELSE budget

Counted(A) == A /\ Count

\* the steps of a running call
TzCountStep ==
  \/ Counted(TzDetect)
  \/ Counted(TzDispatch /\ Len(buttons') <= MaxCounted)
  \/ Counted(TzS0) \/ Counted(TzS1) \/ Counted(TzS1b)
  \/ Counted(TzS2) \/ Counted(TzS3) \/ Counted(TzS4) \/ Counted(TzS4c)

TzCountNext ==
  \/ Counted(TzStart)
  \/ TzCountStep
  \/ Counted(TzDone)
  \/ TestNavigates

\* every driver call of the handler returns or times out (isVisible and
\* click carry timeouts, waitForTimeout is a timer), so a call that can take
\* a step takes one
TzCountSpec == Init /\ [][TzCountNext]_vars /\ WF_vars(TzCountStep)

\* a test navigates its page between two calls
FlowNavigates ==
  /\ pc = "idle"
  /\ pages[TestPage] = "open"
  /\ \E u \in FlowUrls : url' = [url EXCEPT ![TestPage] = u]
  /\ UNCHANGED <<pc, pages, pageOf, outcome, err, made, click, tzVars, countVars, poVars>>

\* the caller gets the settled promise back
FlowDone ==
  /\ \/ pc \in {"sched_done"}
     \/ pc = "slot_done" /\ err # "none"
  /\ pc' = "idle"
  /\ obs' = NoObs /\ click' = NoClick /\ outcome' = "none" /\ err' = "none"
  /\ idx' = 0 /\ cnt' = 0
  /\ form' = NoForm /\ tries' = 0 /\ slots' = <<>> /\ wanted' = "" /\ boxes' = <<>>
  /\ UNCHANGED <<pages, url, pageOf, made, action, popup, buttons, yellow, countVars>>

\* the caller of register or isRegistrationSuccessful gets the promise back
RegDone ==
  /\ pc \in {"reg_done", "regok_done"}
  /\ pc' = "idle"
  /\ obs' = NoObs /\ click' = NoClick /\ outcome' = "none" /\ err' = "none"
  /\ idx' = 0 /\ tries' = 0 /\ boxes' = <<>>
  /\ UNCHANGED <<pages, url, pageOf, made, action, popup, buttons, yellow, countVars, cnt,
                 form, slots, wanted>>

\* a test registers a user and asks whether that worked
RegNext ==
  \/ RegGoto \/ RegFill \/ RegBoxes \/ RegWait
  \/ SubStart \/ SubPoll \/ SubFinal \/ SubClick
  \/ IsRegistrationSuccessful \/ PageCloses \/ RegDone

RegSpec == Init /\ [][RegNext]_vars

\* a test navigates its page between two calls
NavNavigates ==
  /\ pc = "idle"
  /\ pages[TestPage] = "open"
  /\ \E u \in FlowUrls : url' = [url EXCEPT ![TestPage] = u]
  /\ obs' = NoObs
  /\ UNCHANGED <<pc, pages, pageOf, outcome, err, made, click,
                 action, popup, buttons, yellow, countVars, idx, cnt, poVars>>

\* a page of the context is closed between two calls
NavPageCloses ==
  /\ pc = "idle"
  /\ \E p \in PageIds :
       /\ pages[p] = "open"
       /\ pages' = [pages EXCEPT ![p] = "closed"]
  /\ obs' = NoObs
  /\ UNCHANGED <<pc, url, pageOf, outcome, err, made, click,
                 action, popup, buttons, yellow, countVars, idx, cnt, poVars>>

\* the caller gets the promise back; what a goto did stays known until
\* something else happens to the page
NavDone ==
  /\ pc \in {"lg_done", "li_done", "goto_done"}
  /\ pc' = "idle"
  /\ obs' = IF pc = "goto_done" THEN obs ELSE NoObs
  /\ click' = NoClick /\ outcome' = "none" /\ err' = "none" /\ idx' = 0
  /\ UNCHANGED <<pages, url, pageOf, made, action, popup, buttons, yellow, countVars, cnt, poVars>>

\* a test logs in and walks to the pages of the booking flow
NavNext ==
  \/ LgStart \/ LgTry \/ LgLast \/ LoginFill \/ LoginSubmit
  \/ ScheduleGoto \/ SelectScanGoto \/ ReserveGoto
  \/ NavNavigates \/ NavPageCloses \/ NavDone

NavSpec == Init /\ [][NavNext]_vars

\* whole calls of the page objects, made by a test on its page
FlowNext ==
  \/ SchedStart \/ SchedKnown \/ SchedCount \/ SchedScan
  \/ SchedTarget \/ SchedSelectSlot \/ SchedContinue
  \/ FlowNavigates \/ PageCloses \/ FlowDone

FlowSpec == Init /\ [][FlowNext]_vars

(***************************************************************************)
(* Properties of handleTimezonePopup, checked under TzSpec.                *)
(***************************************************************************)
\* the text of the button a click landed on, as the browser holds it
ClickedText == Trim(ToLowerCase(Chars(click.label)))

\* C1: handleTimezonePopup never clicks a button whose lower-cased, trimmed
\* text contains "sign out", "logout" or "log out", in any strategy of the
\* 'confirm' action.  Stated for the clicks on a button whose text the
\* handler had read before clicking.
C1_NeverClicksSignOut ==
  (click.strat # "none" /\ click.read) => ~IsSignOut(ClickedText)

\* C2: handleTimezonePopup never rejects: whatever the action and whichever
\* driver call fails, the promise it returns resolves.
C2_NeverRejects ==
  /\ outcome # "rejected"
  /\ pc = "tz_done" => outcome = "resolved"

\* a driver call failed inside the handler and the call resolved all the same
C2_Witness ==
  pc = "tz_done" /\ err = "driver" /\ outcome = "resolved" /\ action = "confirm"

\* none of the three probes of detection found a timezone popup
NoPopupDetected(o) ==
  /\ ~o.tz
  /\ ~o.title
  /\ o.any => /\ ~IncludesCI(Chars(o.text), Chars("time zone"))
              /\ ~IncludesCI(Chars(o.text), Chars("timezone"))

\* C3: when no timezone popup is detected (no .timezone-modal, no title, no
\* generic modal whose text mentions the time zone), the handler has issued
\* no click, issues none, and returns, whatever the action.
C3_NoPopupNoClick ==
  [][(pc = "tz_detected" /\ NoPopupDetected(obs))
       => (click = NoClick /\ click' = NoClick
           /\ pc' = "tz_done" /\ outcome' = "resolved")]_vars

\* the handler returned without a click although a modal of another kind
\* was on the page
C3_Witness ==
  /\ pc = "tz_done" /\ action = "confirm"
  /\ NoPopupDetected(obs) /\ obs.any /\ obs.read /\ obs.text = "Cookie settings"
  /\ click = NoClick /\ outcome = "resolved"

\* C4 as stated: every click of the selector loop is on a candidate seen
\* visible, not seen disabled, whose text contains "confirm".
C4_ClicksOnlyConfirmLabelled ==
  click.strat = "s0" =>
    click.vis /\ click.en # "no" /\ IsConfirmText(ClickedText)

\* one iteration of the selector loop, for the candidate of selector idx
C4_S0Step ==
  (pc = "tz_s0" /\ idx <= NumSelectors) =>
    LET b == Candidate(idx, buttons, popup = "class", yellow)
        norm == NormalizedText(click'.label, click'.read)
    IN /\ pc' \in {"tz_s0", "tz_done"}
       /\ pc' = "tz_s0" => idx' = idx + 1
       /\ click' # NoClick =>
            /\ click'.strat = "s0" /\ click'.sel = idx
            /\ b # 0 /\ click'.btn = b
            /\ click'.vis /\ click'.en # "no"
            /\ ~IsSignOut(norm)
            /\ idx <= NumSelectors - 2 => IsConfirmText(norm)

\* C4, amended: the selectors are tried strictly in list order; a candidate
\* is clicked only if it is visible, not reported disabled, and the text
\* read from it has no sign-out wording; the text must contain "confirm" for
\* the first five selectors only, the last two being fallbacks.
C4_SelectorsInOrder == [][C4_S0Step]_vars

\* the last selector clicked a button that is not labelled Confirm
C4_Witness ==
  /\ click.strat = "s0" /\ click.sel = NumSelectors
  /\ click.read /\ click.label = "Close"

\* the strategies of the 'confirm' action
ConfirmStrats == {"s0", "s1", "s1b", "s1b2", "s2", "s3", "s4", "s4b", "coord"}

\* C5: Confirm, fallback and coordinate clicks happen only with action
\* 'confirm'; with 'close' the only click is on a visible button labelled
\* "Close" of the popup; with 'skip' there is no click at all.
C5_ActionDecidesClick ==
  /\ click.strat \in ConfirmStrats => action = "confirm"
  /\ (action = "close" /\ click # NoClick) =>
       /\ click.strat = "close" /\ click.vis
       /\ click.btn \in 1..Len(buttons)
       /\ buttons[click.btn].label = click.label
       /\ IncludesCI(Chars(click.label), Chars("Close"))
  /\ action = "skip" => click = NoClick
  /\ click.strat \in ConfirmStrats \cup {"close", "none"}

\* action 'skip' on a popup that is detected and visible: no click
C5_Witness ==
  /\ pc = "tz_done" /\ action = "skip"
  /\ popup # "none" /\ obs.shown
  /\ click = NoClick /\ outcome = "resolved"

(***************************************************************************)
(* Properties of the cookie handler and the page objects, checked under    *)
(* Spec.                                                                   *)
(***************************************************************************)
\* C6: acceptCookies never rejects: banner absent, banner without an Accept
\* button, or an Accept button that cannot be clicked, the call resolves.
C6_AcceptCookiesResolves ==
  pc = "ck_done" => outcome = "resolved"

\* the click on Accept failed and the call resolved all the same
C6_Witness ==
  /\ pc = "ck_done" /\ click.strat = "cookie"
  /\ err = "driver" /\ outcome = "resolved"

\* C7 as stated: every page object stays on the page it was constructed
\* with, and no page-object operation opens a page.
C7_SinglePage ==
  /\ \A o \in PageObjects : pageOf[o] = TestPage
  /\ made = {}

\* one step, seen from the `page` fields of the page objects
C7_Step ==
  LET old == pageOf["reserve"]
      new == pageOf'["reserve"]
  IN /\ \A o \in PageObjects \ {"reserve"} : pageOf'[o] = pageOf[o]
     /\ pages[old] = "open" => new = old
     /\ new # old =>
          /\ pc = "idle" /\ pc' = "rdy_done"
          /\ pages[old] = "closed"
          /\ pages'[new] = "open"
          /\ IF \E q \in PageIds : pages[q] = "open"
             THEN /\ pages[new] = "open"
                  /\ \A r \in 1..(new - 1) : pages[r] # "open"
                  /\ made' = made
             ELSE /\ pages[new] = "none"
                  /\ made' = made \cup {new}
     /\ made' # made => new # old

\* C7, amended: a page object keeps the page it was constructed with, except
\* that ReserveAppointmentPage.waitUntilReady, on finding its page closed,
\* rebinds itself to the first open page of the context, and opens a new
\* page when the context has no open page; nothing else opens a page.
C7_RebindsOnlyWhenClosed == [][C7_Step]_vars

\* waitUntilReady has moved ReserveAppointmentPage to a page it opened itself
C7_Witness ==
  /\ pc = "rdy_done"
  /\ pageOf["reserve"] # TestPage /\ pageOf["reserve"] \in made
  /\ pages[TestPage] = "closed"
  /\ pageOf["schedule"] = TestPage

IsHalfHour(s) == Includes(Chars(s.time), Chars(":30"))

\* C9: when no visible slot matches the preferred time, the slot clicked is
\* the first enabled slot whose time ends in ":30" (stated where there is
\* one); when the matching slot is visible, it is the one clicked.
C9_FallsBackToHalfHourSlot ==
  (pc = "slot_done" /\ click.strat = "slot" /\ err = "none") =>
    LET pref == FirstIdx(slots, LAMBDA s : MatchesTarget(s, wanted))
        half == FirstIdx(slots, LAMBDA s : s.en /\ IsHalfHour(s))
    IN IF pref # 0 /\ slots[pref].vis THEN click.btn = pref
       ELSE half # 0 => click.btn = half

C11_ReturnsOnlyOnPaymentUrl ==
  [][(pc # "sched_done" /\ pc' = "sched_done") =>
       LET p == pageOf["schedule"]
           matched == UrlIsPayment(url[p]) \/ UrlIsPayment(url'[p])
       IN /\ outcome' = "resolved" =>
               pc = "slot_done" /\ click'.strat = "continue" /\ matched
          /\ click'.strat = "continue" => click'.vis /\ click'.en = "yes"
          /\ (click'.strat = "continue" /\ ~matched) => outcome' = "rejected"]_vars

C11_Witness ==
  /\ pc = "sched_done" /\ outcome = "resolved"
  /\ click.strat = "continue"
  /\ UrlIsPayment(url[pageOf["schedule"]])

\* C12: the call reaches the time-slot step only out of a date click after
\* which a time slot was seen; the known good dates are tried in list order
\* from the first, the calendar scan starts only when all of them have been
\* tried, each loop leaves at the first date after which a slot is seen, and
\* the call throws "Could not select any available date with time slots"
\* exactly when the scan runs out (a failing count() of the calendar buttons
\* ends the call with the driver's error instead)
C12_DateBeforeSlot ==
  [][/\ (pc # "sched_dated" /\ pc' = "sched_dated") =>
          click'.strat \in {"known", "scan"} /\ obs'.appeared
     /\ (pc # "sched_slot" /\ pc' = "sched_slot") => pc = "sched_dated"
     /\ (pc # "sched_known" /\ pc' = "sched_known") => idx' = 1
     /\ (pc = "sched_known" /\ pc' = "sched_known") => idx' = idx + 1
     /\ click'.strat = "known" =>
          pc = "sched_known" /\ click'.sel = idx /\ idx \in 1..NumKnownDates
     /\ (pc # "sched_count" /\ pc' = "sched_count") =>
          pc = "sched_known" /\ idx = NumKnownDates + 1
     /\ (pc # "sched_scan" /\ pc' = "sched_scan") => pc = "sched_count"
     /\ (pc = "sched_scan" /\ pc' = "sched_scan") => idx' = idx + 1 /\ cnt' = cnt
     /\ click'.strat = "scan" =>
          pc = "sched_scan" /\ click'.sel = idx /\ idx < cnt
     /\ (click'.strat \in {"known", "scan"} /\ obs'.appeared) => pc' = "sched_dated"
     /\ (pc # "sched_done" /\ pc' = "sched_done") =>
          /\ err' = NoDateMessage <=> (pc = "sched_scan" /\ idx >= ScanLimit(cnt))
          /\ pc \in {"sched_count", "sched_scan"} => outcome' = "rejected"]_vars

C12_Witness ==
  /\ pc = "sched_dated"
  /\ click.strat = "scan" /\ click.sel > ScanSkip
  /\ obs.appeared

\* ---------------------------------------------------------------------------
\* RegistrationPage

RegStepsBeforeSubmit == {"idle", "reg_fill", "reg_boxes", "reg_wait"}

\* C13: register goes from the form navigation to the fill, to the
\* checkboxes, to the wait for the button and only then into submit, each
\* step entered only when the one before ended without a throw; the submit
\* button is clicked only in the last step of submit, with the checkboxes
\* found and every visible unchecked one clicked; a throw of an earlier step
\* ends the call as rejected with no submit click
C13_SubmitAfterCheckboxes ==
  [][/\ click'.strat = "submit" =>
          /\ pc = "sub_click"
          /\ boxes # <<>>
          /\ \A k \in 1..Len(boxes) :
               (boxes[k].vis /\ ~boxes[k].checked) => boxes[k].clicks >= 1
     /\ (pc # "reg_fill" /\ pc' = "reg_fill") =>
          pc = "idle" /\ err' = "none" /\ click'.strat = "join"
     /\ (pc # "reg_boxes" /\ pc' = "reg_boxes") => pc = "reg_fill" /\ err' = "none"
     /\ (pc # "reg_wait" /\ pc' = "reg_wait") => pc = "reg_boxes" /\ err' = "none"
     /\ (pc # "sub_start" /\ pc' = "sub_start") => pc = "reg_wait" /\ err' = "none"
     /\ (pc # "sub_poll" /\ pc' = "sub_poll") => pc = "sub_start"
     /\ (pc # "sub_final" /\ pc' = "sub_final") => pc \in {"sub_start", "sub_poll"}
     /\ (pc # "sub_click" /\ pc' = "sub_click") => pc = "sub_final"
     /\ (pc \in RegStepsBeforeSubmit /\ err' # "none") =>
          pc' = "reg_done" /\ outcome' = "rejected" /\ click'.strat # "submit"
     /\ pc = "reg_done" => pc' = "idle"]_vars

C13_Witness ==
  /\ pc = "reg_done" /\ outcome = "resolved"
  /\ click.strat = "submit"
  /\ \E k \in 1..Len(boxes) : boxes[k].clicks >= 1

\* C14: the submit button is clicked only in the step after the last
\* isEnabled() check, and only when that check said enabled; when that check
\* says disabled, after the first check and at most 10 polls, the call ends
\* with "Submit button is not enabled..." and no click
C14_SubmitOnlyWhenEnabled ==
  [][/\ click'.strat = "submit" =>
          pc = "sub_click" /\ obs.enabled /\ click'.en = "yes"
     /\ (pc # "sub_click" /\ pc' = "sub_click") => pc = "sub_final" /\ obs'.enabled
     /\ pc = "sub_poll" => idx < MaxPolls /\ ~obs.enabled
     /\ pc' \in {"sub_poll", "sub_final"} => idx' <= MaxPolls
     /\ (pc = "sub_final" /\ ~obs'.enabled) =>
          pc' = "reg_done" /\ err' = SubmitMessage /\ click' = NoClick
     /\ err' = SubmitMessage => pc = "sub_final" /\ ~obs'.enabled]_vars

C14_Witness ==
  /\ pc = "reg_done" /\ err = SubmitMessage
  /\ idx = MaxPolls /\ click = NoClick

\* C15: isRegistrationSuccessful always resolves, and its result is true
\* exactly when the URL has none of /sign-in, /register, /join in it or a
\* success indicator was seen; on a registration URL with no indicator seen
\* it is false, error shown or not
C15_SuccessIffLeftOrIndicator ==
  pc = "regok_done" =>
    /\ outcome = "resolved" /\ err = "none"
    /\ obs.ret <=>
         \/ \A s \in {"/sign-in", "/register", "/join"} :
              ~Includes(Chars(RegUrl), Chars(s))
         \/ obs.seen

C15_Witness ==
  /\ pc = "regok_done"
  /\ obs.ret /\ obs.seen
  /\ Includes(Chars(RegUrl), Chars("/register"))

\* ---------------------------------------------------------------------------
\* LoginPage

\* C16: LoginPage.goto never returns normally after its last isClosed() said
\* that the page is closed
C16_NeverReturnsOnClosedPage ==
  (pc = "lg_done" /\ outcome = "resolved") => ~obs.sawClosed

\* C17: whenever LoginPage.goto returns normally, it has seen the email input
\* visible or a URL with /dashboard, /home or /select-scan in it
C17_ReturnsOnFormOrLoggedIn ==
  (pc = "lg_done" /\ outcome = "resolved") => (obs.emailSeen \/ obs.loggedInSeen)

\* C18: login clicks the login button only after the email and then the
\* password were filled; once the click is made the call resolves, at the
\* tick at which the first of the three waits settles, timeouts included;
\* it rejects only when a fill or the click throws
C18_LoginRaceResolves ==
  [][/\ click'.strat = "login" =>
          pc = "li_click" /\ obs.filled = <<"email", "password">>
     /\ (pc # "li_click" /\ pc' = "li_click") =>
          pc = "idle" /\ obs'.filled = <<"email", "password">>
     /\ (pc' = "li_done" /\ pc # "li_done") =>
          /\ obs'.settledAt > 0 =>
               /\ outcome' = "resolved" /\ click'.strat = "login"
               /\ obs'.settledAt \in {obs'.urlAt, obs'.errAt, obs'.navAt}
               /\ \A t \in {obs'.urlAt, obs'.errAt, obs'.navAt} : obs'.settledAt <= t
          /\ outcome' = "rejected" => err' = "driver" /\ obs'.settledAt = 0
          /\ (outcome' = "resolved") = (obs'.settledAt > 0)]_vars

C18_Witness ==
  /\ pc = "li_done" /\ outcome = "resolved" /\ click.strat = "login"
  /\ obs.urlAt = MaxWait /\ obs.errAt = MaxWait /\ obs.navAt = MaxWait
  /\ obs.settledAt = MaxWait

\* ---------------------------------------------------------------------------
\* goto of ScheduleScanPage, SelectScanPage and ReserveAppointmentPage

\* the page a goto call of `who` starts on, and whether its URL names the
\* page of `who`
GotoPage(who) == IF who = "select" THEN TestPage ELSE pageOf[who]
UrlNamesPage(who, u) ==
  CASE who = "schedule" -> OnSchedule(u)
    [] who = "select" -> OnSelectScan(u)
    [] who = "reserve" -> OnPaymentPage(u)

C20_ReturnsOnceSeenGone ==
  [][(click' # NoClick /\ obs'.after \in {"gone", "closed", "login"})
       => pc' = "tz_done"]_vars

\* ---------------------------------------------------------------------------
\* handleTimezonePopup: detection

\* the text read off the generic modal mentions the time zone
MentionsTimezone(o) ==
  /\ o.read
  /\ \/ IncludesCI(Chars(o.text), Chars("time zone"))
     \/ IncludesCI(Chars(o.text), Chars("timezone"))

\* C21: after the three probes `popup` is the .timezone-modal element when
\* that was seen; else, when the title was seen, the modal around the title
\* or, that one not being visible, the generic modal; else the generic modal
\* when it was seen and its text mentions the time zone; else nothing. No
\* strategy runs without a popup.
C21_DetectsByPriority ==
  /\ pc = "tz_detected" =>
       popup = IF obs.tz THEN "class"
               ELSE IF obs.title /\ obs.anc THEN "ancestor"
               ELSE IF obs.title THEN "generic"
               ELSE IF obs.any /\ MentionsTimezone(obs) THEN "generic"
               ELSE "none"
  /\ pc \notin {"idle", "tz_detect", "tz_detected", "tz_done"} => popup # "none"

\* the title was seen, the modal around it was not, the generic modal is taken
C21_Witness ==
  /\ pc = "tz_detected"
  /\ ~obs.tz /\ obs.title /\ ~obs.anc /\ obs.any
  /\ popup = "generic"

(***************************************************************************)
(* Termination and the number of clicks of handleTimezonePopup, checked    *)
(* under TzCountSpec.                                                      *)
(***************************************************************************)
\* C22 (as stated): when a call returns, the clicks it has issued, the one of
\* its last step included, are at most selectors.length plus the counts taken
\* at the start of its fallback loops.
C22_ClicksWithinLoopCounts ==
  [][(pc \notin {"idle", "tz_done"} /\ pc' = "tz_done")
       => clicks + ClicksOf(click') <= budget]_vars

\* C22: every call returns, whatever the popup does, and at no step has it
\* issued more clicks than selectors.length plus the counts taken at the
\* start of its fallback loops plus two (the click of Strategy 1b, and the one
\* of Strategy 3, of Strategy 4 or at the coordinates), a click and its
\* JavaScript retry counting as one.
C22_ReturnsAfterBoundedClicks ==
  /\ [][pc \notin {"idle", "tz_done"}
          => clicks + ClicksOf(click') <= budget + 2]_vars
  /\ (pc = "tz_detect") ~> (pc = "tz_done")

\* the popup has stayed through every selector, both fallback loops and
\* Strategy 1b, each of which clicked: one click more than the loops account for
C22_Witness ==
  /\ pc = "tz_s3"
  /\ budget = NumSelectors + 2
  /\ clicks = budget + 1

====================
